---- MODULE Spec2Model ----
(***************************************************************************)
(* Model of console/quadplay-load.js: the asynchronous game loader.        *)
(*                                                                         *)
(* The state is the loader's global variables (loadManager, assetCache,    *)
(* gameSource, spritesheetArray, fontArray), the heap of asset objects     *)
(* they point to, and the continuations that are in flight: fetches        *)
(* registered with a LoadManager, audio decodes and the cache-hit poll     *)
(* timers of loadSpritesheet.  JavaScript runs every continuation to       *)
(* completion, so one action is one whole continuation.                    *)
(*                                                                         *)
(* LoadManager.js itself is not part of the sources; its three operations  *)
(* (fetch, end, markRequestCompleted) follow the scheduler contract of the *)
(* specification, section 4.1.                                             *)
(***************************************************************************)
EXTENDS Integers, Sequences, FiniteSets, TLC

\* ---------------------------------------------------------------- bounds
\* number of calls of afterLoadGame
MaxSessions == 2
\* number of assets a manifest declares
MaxAssets == 2
\* number of script and mode files of the manifest
MaxText == 1
\* number of assets of a manifest that is loaded more than once
MaxReloadAssets == 1
\* number of declared modes, and of declared constants, of a game document
MaxModes == 2
MaxConstants == 2
\* length of the reference chain that is followed
MaxPath == 6
\* width and height of a spritesheet image, of a sprite, and the gutter
MaxSide == 4
MaxSpriteSide == 3
MaxGutter == 1
\* sprites of an animation, and the frame counters sampled (-MaxCounter..MaxCounter)
MaxFrames == 4
MaxCounter == 9
\* rows of a table of tabular data, and cells of a row
MaxRows == 2
MaxCells == 3
\* tile indices of a layer cell, and columns and rows of the sheet of tiles
MaxTile == 5
MaxTileSide == 2
\* width and height of an image whose pixels are quantized
MaxImageSide == 2
\* number of characters of a source that is scanned
MaxSource == 3

\* ------------------------------------------------------------------ URLs
\* A metadata URL, already split the way the loader's regular expressions
\* look at it: scheme (quad:// marks a built-in), file stem, and the
\* extension in front of ".json" that selects the asset type.
Url(scheme, stem, ext) == [scheme |-> scheme, stem |-> stem, ext |-> ext]

SheetA == Url("http", "A", "sprite")
SheetQ == Url("quad", "Q", "sprite")
FontQ  == Url("quad", "F", "font")
SoundS == Url("http", "S", "sound")
MapM   == Url("http", "M", "map")
MapQ   == Url("quad", "QM", "map")
DataX  == Url("http", "X", "data")

AssetURLs == {SheetA, SheetQ, FontQ, SoundS, MapM, MapQ, DataX}

\* json.sprite_url of each map metadata document
SpriteUrlOf(mapURL) == SheetQ

isBuiltIn(url) == url.scheme = "quad"

\* assetURL.match(/\.([^.]+)\.json$/i), lower-cased
AssetType(url) == url.ext

Manifests == UNION { [1..n -> AssetURLs] : n \in 1..MaxAssets }

NoObj == 0

VARIABLES
    useIDE,           \* global useIDE
    fastReload,       \* global fastReload
    manifest,         \* gameJSON.assets of the game at gameURL, keys in sorted order
    loadManager,      \* global loadManager: 0 is null, else the session number
    lm,               \* the LoadManager objects, one per call of afterLoadGame
    assetCache,       \* global assetCache: URL -> object or NoObj
    heap,             \* the asset objects constructed so far
    spritesheetArray, \* global spritesheetArray
    fontArray,        \* global fontArray
    gameSource,       \* global gameSource
    inflight,         \* registered continuations that have not run yet
    obs,              \* per session: what has been observed of it
    constructed,      \* per URL: objects constructed since the last afterLoadGame
    returned,         \* per URL: objects returned by load* since the last afterLoadGame
    lastHit,          \* the object the last step found in the cache, or NoObj
    gameJSON,         \* the game document whose reference constants are resolved
    resolving,        \* the reference loop of the game.json continuation: its locals
    args,             \* the arguments of a call of one of the loader's functions
    result            \* what the call returned

vars == <<useIDE, fastReload, manifest, loadManager, lm, assetCache,
          heap, spritesheetArray, fontArray, gameSource, inflight, obs,
          constructed, returned, lastHit, gameJSON, resolving, args, result>>

\* the globals of the loader and what is observed of them
loaderVars == <<useIDE, fastReload, manifest, loadManager, lm, assetCache,
                heap, spritesheetArray, fontArray, gameSource, inflight, obs,
                constructed, returned, lastHit>>

\* The mutable globals as one value, threaded through the calls of a handler.
\* running is the session whose LoadManager or timer runs the handler; thrown
\* is set when the handler raised; ret is the value of the last load* call.
World(running) ==
    [loadManager |-> loadManager, lm |-> lm, assetCache |-> assetCache,
     heap |-> heap, spritesheetArray |-> spritesheetArray,
     fontArray |-> fontArray, gameSource |-> gameSource, inflight |-> inflight,
     obs |-> obs, constructed |-> constructed, returned |-> returned,
     lastHit |-> NoObj, running |-> running, thrown |-> FALSE, ret |-> NoObj]

Commit(w) ==
    /\ loadManager' = w.loadManager
    /\ lm' = w.lm
    /\ assetCache' = w.assetCache
    /\ heap' = w.heap
    /\ spritesheetArray' = w.spritesheetArray
    /\ fontArray' = w.fontArray
    /\ gameSource' = w.gameSource
    /\ inflight' = w.inflight
    /\ obs' = w.obs
    /\ constructed' = w.constructed
    /\ returned' = w.returned
    /\ lastHit' = w.lastHit
    /\ UNCHANGED <<useIDE, fastReload, manifest, gameJSON, resolving, args, result>>

\* array.indexOf(x), 0-based, -1 when absent
IndexOf(array, x) ==
    IF \E i \in 1..Len(array) : array[i] = x
    THEN (CHOOSE i \in 1..Len(array) :
              array[i] = x /\ \A j \in 1..(i - 1) : array[j] # x) - 1
    ELSE -1

\* A continuation waiting to run.  sess is the LoadManager it was registered
\* with (for decode and poll: the one whose pendingRequests was raised).
Task(kind, sess, name, obj, cb) ==
    [kind |-> kind, sess |-> sess, name |-> name, obj |-> obj, cb |-> cb]

FetchKinds == {"debug", "game", "text", "assetjson", "fontpng", "sheetpng",
               "mp3", "sheetjson", "tmx", "constjson", "constyml", "consttable"}

\* -------------------------------------------------------- LoadManager
\* new LoadManager({callback, errorCallback, ...})
NewLoadManager == [pendingRequests |-> 0, status |-> "accepting requests"]

\* What is recorded of a session: the calls made by its completion callback,
\* whether end() was called, whether the error channel was used, whether
\* the debug fetch and whether any other fetch failed, whether a
\* continuation raised, whether an audio
\* decode failed, the maps whose tile document disagreed with the spritesheet
\* about a size, the number of modes found to be the start mode (-1 before
\* they were counted), and the cache and the outstanding work at the drain event.
NewObs == [log |-> <<>>, ended |-> FALSE, error |-> FALSE,
           debugFailed |-> FALSE, fetchFailed |-> FALSE, threw |-> FALSE, decodeFailed |-> FALSE,
           mismatch |-> {}, numStartModes |-> -1,
           cacheAtDrain |-> -1, ownAtDrain |-> -1, workAtDrain |-> -1]

\* Continuations registered on behalf of session s that have not finished.
Outstanding(w, s) == {t \in w.inflight : t.sess = s}

\* Cache entries, and those constructed by continuations of session s.
CacheEntries(w) == {u \in AssetURLs : w.assetCache[u] # NoObj}
OwnEntries(w, s) == {u \in CacheEntries(w) : w.heap[w.assetCache[u]].by = s}

\* computeAssetCredits(gameSource): reads gameSource.json.title first, then
\* every asset's _json; raises when gameSource.json is not there yet.
computeAssetCredits(w) ==
    IF w.gameSource.json
    THEN [w EXCEPT !.gameSource.CREDITS = TRUE]
    ELSE [w EXCEPT !.thrown = TRUE]

\* recordSpriteStats / recordSoundStats read the pixel or sample buffer.
HasStats(w, o) ==
    CASE w.heap[o].type \in {"font", "spritesheet", "sound"} -> w.heap[o].loaded
      [] OTHER -> TRUE

\* computeResourceStats(gameSource)
computeResourceStats(w) ==
    IF /\ w.gameSource.assetsDefined
       /\ \E n \in DOMAIN w.gameSource.assets :
              /\ w.gameSource.assets[n] # NoObj
              /\ ~HasStats(w, w.gameSource.assets[n])
    THEN [w EXCEPT !.thrown = TRUE]
    ELSE w

\* the completion callback with the caller's callback run before the reports
onLoadCallbackFirst(w, s) ==
    LET w0 == [w EXCEPT !.obs[s].cacheAtDrain = Cardinality(CacheEntries(w)),
                        !.obs[s].ownAtDrain = Cardinality(OwnEntries(w, s)),
                        !.obs[s].workAtDrain = Cardinality(Outstanding(w, s)),
                        !.obs[s].log = @ \o <<"callback", "computeAssetCredits">>]
        w1 == computeAssetCredits(w0)
        w2 == IF w1.thrown THEN w1
              ELSE computeResourceStats(
                       [w1 EXCEPT !.obs[s].log = Append(@, "computeResourceStats")])
    IN  [w2 EXCEPT !.thrown = FALSE]

\* The callback that afterLoadGame hands to the LoadManager of session s.
onLoad(w, s) ==
    LET w0 == [w EXCEPT !.obs[s].cacheAtDrain = Cardinality(CacheEntries(w)),
                        !.obs[s].ownAtDrain = Cardinality(OwnEntries(w, s)),
                        !.obs[s].workAtDrain = Cardinality(Outstanding(w, s)),
                        !.obs[s].log = Append(@, "computeAssetCredits")]
        w1 == computeAssetCredits(w0)
        w2 == IF w1.thrown THEN w1
              ELSE computeResourceStats(
                       [w1 EXCEPT !.obs[s].log = Append(@, "computeResourceStats")])
        w3 == IF w2.thrown THEN w2
              ELSE [w2 EXCEPT !.obs[s].log = Append(@, "callback")]
    IN  [w3 EXCEPT !.thrown = FALSE]

\* loadManager.fetch(...): registers one request with the LoadManager that
\* the global loadManager names and returns at once.
LMfetch(w, kind, name, obj, cb) ==
    [w EXCEPT !.lm[w.loadManager].pendingRequests = @ + 1,
              !.inflight = @ \cup {Task(kind, w.loadManager, name, obj, cb)}]

\* LoadManager.markRequestCompleted(url, message, success) on LoadManager s
markRequestCompleted(w, s, success) ==
    LET p == w.lm[s].pendingRequests - 1 IN
    IF ~success
    THEN [w EXCEPT !.lm[s] = [pendingRequests |-> p, status |-> "failure"],
                   !.obs[s].error = TRUE]
    ELSE IF p = 0 /\ w.lm[s].status = "loading"
    THEN onLoad([w EXCEPT !.lm[s] = [pendingRequests |-> p, status |-> "complete"]], s)
    ELSE [w EXCEPT !.lm[s].pendingRequests = p]

\* LoadManager.end()
LMend(w) ==
    LET s == w.loadManager
        w1 == [w EXCEPT !.obs[s].ended = TRUE] IN
    IF w.lm[s].status # "accepting requests" THEN w1
    ELSE IF w.lm[s].pendingRequests = 0
    THEN onLoad([w1 EXCEPT !.lm[s].status = "complete"], s)
    ELSE [w1 EXCEPT !.lm[s].status = "loading"]

\* ------------------------------------------------------------ the cache
\* clearAssetCache without the loop that deletes the other entries
clearAssetCacheKeepsAll(cache) ==
    IF ~useIDE \/ fastReload
    THEN cache
    ELSE [url \in AssetURLs |-> NoObj]

\* clearAssetCache()
clearAssetCache(cache) ==
    IF ~useIDE \/ fastReload
    THEN [url \in AssetURLs |-> IF ~isBuiltIn(url) THEN NoObj ELSE cache[url]]
    ELSE [url \in AssetURLs |-> NoObj]

NewObject(w, type, name, jsonURL, index) ==
    [type |-> type, name |-> name, jsonURL |-> jsonURL, index |-> index,
     frozen |-> FALSE, loaded |-> FALSE, spritesheet |-> NoObj,
     layers |-> FALSE, by |-> w.running]

\* assetCache[jsonURL] = obj = {...}
Construct(w, obj) ==
    [w EXCEPT !.heap = Append(@, obj),
              !.assetCache[obj.jsonURL] = Len(w.heap) + 1,
              !.constructed[obj.jsonURL] = @ + 1,
              !.ret = Len(w.heap) + 1]

Return(w, jsonURL, obj) ==
    [w EXCEPT !.ret = obj, !.returned[jsonURL] = @ \cup {obj}]

\* ---------------------------------------------------------- the loaders
\* loadFont that renames the cached font to the name of the new declaration
loadFontRenames(w, name, jsonURL) ==
    LET font == w.assetCache[jsonURL] IN
    IF font # NoObj
    THEN LET w1 == IF IndexOf(w.fontArray, font) = -1
                   THEN [w EXCEPT !.heap[font].index = Len(w.fontArray),
                                  !.fontArray = Append(@, font)]
                   ELSE w
         IN  Return([w1 EXCEPT !.lastHit = font, !.heap[font].name = name],
                    jsonURL, font)
    ELSE LET w1 == Construct(w, NewObject(w, "font", name, jsonURL, Len(w.fontArray)))
             w2 == [w1 EXCEPT !.fontArray = Append(@, w1.ret)]
             w3 == LMfetch(w2, "fontpng", name, w1.ret, NoObj)
         IN  Return(w3, jsonURL, w1.ret)

\* loadFont(name, json, jsonURL)
loadFont(w, name, jsonURL) ==
    LET font == w.assetCache[jsonURL] IN
    IF font # NoObj
    THEN LET w1 == IF IndexOf(w.fontArray, font) = -1
                   THEN [w EXCEPT !.heap[font].index = Len(w.fontArray),
                                  !.fontArray = Append(@, font)]
                   ELSE w
         IN  Return([w1 EXCEPT !.lastHit = font], jsonURL, font)
    ELSE LET w1 == Construct(w, NewObject(w, "font", name, jsonURL, Len(w.fontArray)))
             w2 == [w1 EXCEPT !.fontArray = Append(@, w1.ret)]
             w3 == LMfetch(w2, "fontpng", name, w1.ret, NoObj)
         IN  Return(w3, jsonURL, w1.ret)

\* loadSound that never looks in the cache
loadSoundUncached(w, name, jsonURL) ==
    LET w1 == Construct(w, NewObject(w, "sound", name, jsonURL, -1))
        w2 == LMfetch(w1, "mp3", name, w1.ret, NoObj)
    IN  Return(w2, jsonURL, w1.ret)

\* loadSound(name, json, jsonURL)
loadSound(w, name, jsonURL) ==
    LET sound == w.assetCache[jsonURL] IN
    IF sound # NoObj
    THEN Return([w EXCEPT !.lastHit = sound], jsonURL, sound)
    ELSE LET w1 == Construct(w, NewObject(w, "sound", name, jsonURL, -1))
             w2 == LMfetch(w1, "mp3", name, w1.ret, NoObj)
         IN  Return(w2, jsonURL, w1.ret)

\* loadSpritesheetCallback(spritesheet) of loadMap, closed over map
loadSpritesheetCallback(w, map, spritesheet) ==
    LMfetch([w EXCEPT !.heap[map].spritesheet = spritesheet],
            "tmx", w.heap[map].name, map, NoObj)

\* runCallbackWhenLoaded without the Object.isFrozen test
runCallbackAtOnce(w, sess, spritesheet, callback) ==
    markRequestCompleted(loadSpritesheetCallback(w, callback, spritesheet),
                         w.loadManager, TRUE)

\* runCallbackWhenLoaded that counts the wait as completed before it invokes
\* the callback
runCallbackReleasesFirst(w, sess, spritesheet, callback) ==
    IF w.heap[spritesheet].frozen
    THEN loadSpritesheetCallback(markRequestCompleted(w, w.loadManager, TRUE),
                                 callback, spritesheet)
    ELSE [w EXCEPT !.inflight = @ \cup
              {Task("poll", sess, w.heap[callback].name, spritesheet, callback)}]

\* runCallbackWhenLoaded() of loadSpritesheet, closed over spritesheet and
\* callback; sess is the LoadManager whose pendingRequests the wait raised.
runCallbackWhenLoaded(w, sess, spritesheet, callback) ==
    IF w.heap[spritesheet].frozen
    THEN markRequestCompleted(loadSpritesheetCallback(w, callback, spritesheet),
                              w.loadManager, TRUE)
    ELSE [w EXCEPT !.inflight = @ \cup
              {Task("poll", sess, w.heap[callback].name, spritesheet, callback)}]

\* loadSpritesheet whose cache-hit branch registers the sheet without the
\* indexOf test
loadSpritesheetPushesAgain(w, name, jsonURL, callback) ==
    LET spritesheet == w.assetCache[jsonURL] IN
    IF spritesheet # NoObj
    THEN LET w1 == [w EXCEPT !.heap[spritesheet].index = Len(w.spritesheetArray),
                             !.spritesheetArray = Append(@, spritesheet)]
             w2 == [w1 EXCEPT !.lastHit = spritesheet]
             w3 == IF callback # NoObj
                   THEN runCallbackWhenLoaded(
                            [w2 EXCEPT !.lm[w2.loadManager].pendingRequests = @ + 1],
                            w2.loadManager, spritesheet, callback)
                   ELSE w2
         IN  Return(w3, jsonURL, spritesheet)
    ELSE LET w1 == Construct(w, NewObject(w, "spritesheet", name, jsonURL,
                                          Len(w.spritesheetArray)))
             w2 == [w1 EXCEPT !.spritesheetArray = Append(@, w1.ret)]
             w3 == LMfetch(w2, "sheetpng", name, w1.ret, callback)
         IN  Return(w3, jsonURL, w1.ret)

\* loadSpritesheet(name, json, jsonURL, callback); callback is the map whose
\* loadSpritesheetCallback is passed, or NoObj for null
loadSpritesheet(w, name, jsonURL, callback) ==
    LET spritesheet == w.assetCache[jsonURL] IN
    IF spritesheet # NoObj
    THEN LET w1 == IF IndexOf(w.spritesheetArray, spritesheet) = -1
                   THEN [w EXCEPT !.heap[spritesheet].index = Len(w.spritesheetArray),
                                  !.spritesheetArray = Append(@, spritesheet)]
                   ELSE w
             w2 == [w1 EXCEPT !.lastHit = spritesheet]
             w3 == IF callback # NoObj
                   THEN runCallbackWhenLoaded(
                            [w2 EXCEPT !.lm[w2.loadManager].pendingRequests = @ + 1],
                            w2.loadManager, spritesheet, callback)
                   ELSE w2
         IN  Return(w3, jsonURL, spritesheet)
    ELSE LET w1 == Construct(w, NewObject(w, "spritesheet", name, jsonURL,
                                          Len(w.spritesheetArray)))
             w2 == [w1 EXCEPT !.spritesheetArray = Append(@, w1.ret)]
             w3 == LMfetch(w2, "sheetpng", name, w1.ret, callback)
         IN  Return(w3, jsonURL, w1.ret)

\* loadMap that loads a second spritesheet next to the primary one
loadMapSecondSheet(w, name, mapJSONUrl) ==
    LET map == w.assetCache[mapJSONUrl] IN
    IF map # NoObj
    THEN LET spritesheet == w.heap[map].spritesheet
             w1 == IF spritesheet # NoObj /\ IndexOf(w.spritesheetArray, spritesheet) = -1
                   THEN [w EXCEPT !.heap[spritesheet].index = Len(w.spritesheetArray),
                                  !.spritesheetArray = Append(@, spritesheet)]
                   ELSE w
         IN  Return([w1 EXCEPT !.lastHit = map], mapJSONUrl, map)
    ELSE LET w1 == Construct(w, NewObject(w, "map", name, mapJSONUrl, -1))
             w2 == LMfetch(w1, "sheetjson", name, w1.ret, NoObj)
             w3 == loadSpritesheet(w2, name, SheetA, NoObj)
         IN  Return(w3, mapJSONUrl, w1.ret)

\* loadMap(name, json, mapJSONUrl)
loadMap(w, name, mapJSONUrl) ==
    LET map == w.assetCache[mapJSONUrl] IN
    IF map # NoObj
    THEN LET spritesheet == w.heap[map].spritesheet
             w1 == IF spritesheet # NoObj /\ IndexOf(w.spritesheetArray, spritesheet) = -1
                   THEN [w EXCEPT !.heap[spritesheet].index = Len(w.spritesheetArray),
                                  !.spritesheetArray = Append(@, spritesheet)]
                   ELSE w
         IN  Return([w1 EXCEPT !.lastHit = map], mapJSONUrl, map)
    ELSE LET w1 == Construct(w, NewObject(w, "map", name, mapJSONUrl, -1))
             w2 == LMfetch(w1, "sheetjson", name, w1.ret, NoObj)
         IN  Return(w2, mapJSONUrl, w1.ret)

\* ------------------------------------------------------------- handlers
\* Asset names: the n-th key of the manifest, and name + '.spritesheet'
Name(n, suffix) == [asset |-> n, suffix |-> suffix]

NewGameSource ==
    [debug |-> FALSE, json |-> FALSE, assetsDefined |-> FALSE,
     assets |-> [n \in DOMAIN manifest |-> NoObj], CREDITS |-> FALSE,
     extendedJSON |-> <<>>, constants |-> <<>>]

\* The LoadManager hands the payload to the success continuation and then
\* counts the request as completed; a continuation that raises aborts the
\* session through the error channel.
Settle(w, t) ==
    IF w.thrown
    THEN markRequestCompleted([w EXCEPT !.thrown = FALSE, !.obs[t.sess].threw = TRUE],
                              t.sess, FALSE)
    ELSE markRequestCompleted(w, t.sess, TRUE)

\* The world in which the continuation t starts to run.
Start(t) == [World(t.sess) EXCEPT !.inflight = @ \ {t}]

RECURSIVE FetchEach(_, _, _, _)
\* one loadManager.fetch per index i..n, in order
FetchEach(w, kind, i, n) ==
    IF i > n THEN w
    ELSE FetchEach(LMfetch(w, kind, Name(i, ""), NoObj, NoObj), kind, i + 1, n)

\* afterLoadGame with loadManager.end() called before the fetches are
\* registered
afterLoadGameEndsFirst(s, hosted) ==
    LET w0 == [World(s) EXCEPT
                  !.loadManager = s,
                  !.lm = Append(@, NewLoadManager),
                  !.obs = Append(@, NewObs),
                  !.assetCache = clearAssetCache(@),
                  !.gameSource = NewGameSource,
                  !.spritesheetArray = <<>>,
                  !.fontArray = <<>>,
                  !.constructed = [u \in AssetURLs |-> 0],
                  !.returned = [u \in AssetURLs |-> {}]]
        w1 == LMend(w0)
        w2 == IF hosted /\ useIDE
              THEN LMfetch(w1, "debug", Name(0, ""), NoObj, NoObj)
              ELSE w1
    IN  LMfetch(w2, "game", Name(0, ""), NoObj, NoObj)

\* function afterLoadGame(gameURL, callback, errorCallback); hosted is
\* locallyHosted(gameURL) && isQuadserver && !isBuiltIn(gameURL)
afterLoadGameBody(s, hosted) ==
    LET w0 == [World(s) EXCEPT
                  !.loadManager = s,
                  !.lm = Append(@, NewLoadManager),
                  !.obs = Append(@, NewObs),
                  !.assetCache = clearAssetCache(@),
                  !.gameSource = NewGameSource,
                  !.spritesheetArray = <<>>,
                  !.fontArray = <<>>,
                  !.constructed = [u \in AssetURLs |-> 0],
                  !.returned = [u \in AssetURLs |-> {}]]
        w1 == IF hosted /\ useIDE
              THEN LMfetch(w0, "debug", Name(0, ""), NoObj, NoObj)
              ELSE w0
        w2 == LMfetch(w1, "game", Name(0, ""), NoObj, NoObj)
    IN  LMend(w2)

afterLoadGame(limit) ==
    /\ Len(lm) < limit
    /\ Len(lm) = 0 \/ Len(manifest) <= MaxReloadAssets
    /\ \E hosted \in BOOLEAN : Commit(afterLoadGameBody(Len(lm) + 1, hosted))

\* success continuation of the debug.json fetch
debugCallback(w) == [w EXCEPT !.gameSource.debug = TRUE]

DebugJSONLoaded(t) ==
    /\ t.kind = "debug"
    /\ Commit(Settle(debugCallback(Start(t)), t))

\* An entry of gameJSON.modes: a mode name, with the '*' that marked the
\* start mode in legacy files or without it.
Mode(name, star) == [name |-> name, star |-> star]

\* the entry as the string it is: 'Play' or 'Play*'
ModeString(m) == IF m.star THEN <<m.name, "*">> ELSE <<m.name>>

\* How a constant of gameJSON.constants is declared: raw with a .json url,
\* raw with a .yml url, raw with another url, table with a url, or inline.
ConstantTypes == {"rawjson", "rawyml", "rawother", "table", "inline"}

\* A game.json document: valid is whether it passes the checks made before
\* anything is registered (modes and assets well formed, screen size);
\* start_mode is <<>> when the document has none; constants is the type of
\* each constant, in sorted key order.  The documents have no scripts, and
\* the five OS modes the loader appends are left out: they are fetched like
\* the declared modes and their names ($SystemMenu, ...) are no start mode
\* of these documents.
Game(valid, modes, start_mode, constants) ==
    [valid |-> valid, modes |-> modes, start_mode |-> start_mode,
     constants |-> constants]

\* documents with MaxText modes, the first of them the start mode, and no
\* constants
PlainGames ==
    {Game(valid,
          [i \in 1..MaxText |-> Mode(IF i = 1 THEN "Play" ELSE "Title", FALSE)],
          <<"Play">>, <<>>) : valid \in BOOLEAN}

\* documents with up to MaxModes modes and up to MaxConstants constants
Games ==
    {Game(TRUE, modes, start_mode, constants) :
        modes \in UNION {[1..n -> {Mode("Play", FALSE), Mode("Play", TRUE),
                                   Mode("Title", FALSE)}] : n \in 1..MaxModes},
        start_mode \in {<<>>, <<"Play">>},
        constants \in UNION {[1..n -> ConstantTypes] : n \in 0..MaxConstants}}

RECURSIVE upgradeLegacyStartMode(_, _)
\* the loop over gameJSON.modes that runs when the document has no
\* start_mode: every entry with a '*' loses it and becomes the start mode
upgradeLegacyStartMode(game, i) ==
    IF i > Len(game.modes) THEN game
    ELSE IF game.modes[i].star
    THEN upgradeLegacyStartMode(
             [game EXCEPT !.modes[i].star = FALSE,
                          !.start_mode = <<game.modes[i].name>>], i + 1)
    ELSE upgradeLegacyStartMode(game, i + 1)

\* numStartModes after the loop over gameJSON.modes
numStartModes(game) ==
    Cardinality({i \in 1..Len(game.modes) : ModeString(game.modes[i]) = game.start_mode})

RECURSIVE loadConstants(_, _, _)
\* the first loop over the sorted keys of gameJSON.constants
loadConstants(w, constants, i) ==
    IF i > Len(constants) \/ w.thrown THEN w
    ELSE LET type == constants[i]
             w1 == CASE type = "rawjson" -> LMfetch(w, "constjson", Name(i, ""), NoObj, NoObj)
                     [] type = "rawyml" -> LMfetch(w, "constyml", Name(i, ""), NoObj, NoObj)
                     [] type = "rawother" -> [w EXCEPT !.thrown = TRUE]
                     [] type = "table" -> LMfetch(w, "consttable", Name(i, ""), NoObj, NoObj)
                     [] OTHER -> [w EXCEPT !.gameSource.constants[i] = "inline"]
         IN  loadConstants(w1, constants, i + 1)

\* success continuation of the game.json fetch
gameCallback(w, json) ==
    IF ~json.valid THEN [w EXCEPT !.thrown = TRUE]
    ELSE LET game == IF json.start_mode = <<>>
                     THEN upgradeLegacyStartMode(json, 1)
                     ELSE json
             w1 == [w EXCEPT !.gameSource.json = TRUE,
                             !.gameSource.extendedJSON = game.constants,
                             !.obs[w.running].numStartModes = numStartModes(game)]
         IN  IF numStartModes(game) = 0 THEN [w1 EXCEPT !.thrown = TRUE]
             ELSE LET w2 == FetchEach(w1, "text", 1, Len(game.modes))
                      w3 == [w2 EXCEPT !.gameSource.assetsDefined = TRUE,
                                       !.gameSource.assets = [n \in DOMAIN manifest |-> NoObj]]
                      w4 == FetchEach(w3, "assetjson", 1, Len(manifest))
                      w5 == [w4 EXCEPT !.gameSource.constants =
                                           [i \in DOMAIN game.constants |-> "absent"]]
                  IN  loadConstants(w5, game.constants, 1)

GameJSONLoaded(t, games) ==
    /\ t.kind = "game"
    /\ \E json \in games : Commit(Settle(gameCallback(Start(t), json), t))

\* the continuation of an external constant's fetch that stores the value
\* of a .json constant only
constantCallbackJSONOnly(w, c, kind, ok) ==
    IF ~ok THEN [w EXCEPT !.thrown = TRUE]
    ELSE IF kind = "constjson" THEN [w EXCEPT !.gameSource.constants[c] = "json"]
    ELSE w

\* success continuation of the fetch of an external constant; ok is whether
\* the text parses (jsyaml.safeLoad, the table conversion)
constantCallback(w, c, kind, ok) ==
    IF ~ok THEN [w EXCEPT !.thrown = TRUE]
    ELSE [w EXCEPT !.gameSource.constants[c] =
              CASE kind = "constjson" -> "json"
                [] kind = "constyml" -> "yaml"
                [] OTHER -> "table"]

ConstantLoaded(t) ==
    /\ t.kind \in {"constjson", "constyml", "consttable"}
    /\ \E ok \in BOOLEAN :
          /\ (t.kind = "constjson" => ok)
          /\ Commit(Settle(constantCallback(Start(t), t.name.asset, t.kind, ok), t))

\* success continuation of a script or mode fetch: only fileContents and
\* the source statistics change
TextLoaded(t) ==
    /\ t.kind = "text"
    /\ Commit(Settle(Start(t), t))

\* success continuation of an asset's metadata fetch.  When
\* gameSource.assets is undefined the assignment raises a TypeError;
\* rhsFirst is whether the engine has evaluated the load* call by then.
assetCallback(w, name, rhsFirst) ==
    LET assetURL == manifest[name.asset]
        type == AssetType(assetURL)
        called == w.gameSource.assetsDefined \/ rhsFirst
        w1 == CASE type = "font"   -> loadFont(w, name, assetURL)
                [] type = "sprite" -> loadSpritesheet(w, name, assetURL, NoObj)
                [] type = "sound"  -> loadSound(w, name, assetURL)
                [] type = "map"    -> loadMap(w, name, assetURL)
                [] OTHER           -> w
    IN  IF type \notin {"font", "sprite", "sound", "map"} THEN w
        ELSE IF w.gameSource.assetsDefined
        THEN [w1 EXCEPT !.gameSource.assets[name.asset] = w1.ret]
        ELSE IF rhsFirst THEN [w1 EXCEPT !.thrown = TRUE]
        ELSE [w EXCEPT !.thrown = TRUE]

AssetJSONLoaded(t) ==
    /\ t.kind = "assetjson"
    /\ \E rhsFirst \in BOOLEAN :
          /\ (gameSource.assetsDefined => rhsFirst)
          /\ Commit(Settle(assetCallback(Start(t), t.name, rhsFirst), t))

\* success continuation of loadFont's image fetch
fontCallback(w, font) ==
    [w EXCEPT !.heap[font].loaded = TRUE, !.heap[font].frozen = TRUE]

FontImageLoaded(t) ==
    /\ t.kind = "fontpng"
    /\ Commit(Settle(fontCallback(Start(t), t.obj), t))

\* success continuation of loadSpritesheet's image fetch; ok is whether the
\* metadata passes the compiler's checks (grid size, named entries)
spritesheetCallback(w, spritesheet, callback, ok) ==
    LET w1 == [w EXCEPT !.heap[spritesheet].loaded = TRUE] IN
    IF ~ok THEN [w1 EXCEPT !.thrown = TRUE]
    ELSE LET w2 == [w1 EXCEPT !.heap[spritesheet].frozen = TRUE] IN
         IF callback # NoObj
         THEN loadSpritesheetCallback(w2, callback, spritesheet)
         ELSE w2

SpritesheetImageLoaded(t) ==
    /\ t.kind = "sheetpng"
    /\ \E ok \in BOOLEAN :
          Commit(Settle(spritesheetCallback(Start(t), t.obj, t.cb, ok), t))

\* loadSound's continuation without the ++loadManager.pendingRequests
soundCallbackUncounted(w, sound, sync) ==
    IF sync
    THEN markRequestCompleted([w EXCEPT !.obs[w.loadManager].decodeFailed = TRUE],
                              w.loadManager, FALSE)
    ELSE [w EXCEPT !.inflight = @ \cup
              {Task("decode", w.loadManager, w.heap[sound].name, sound, NoObj)}]

\* success continuation of loadSound's fetch; sync is whether
\* decodeAudioData raises at once (the catch branch)
soundCallback(w, sound, sync) ==
    LET w1 == [w EXCEPT !.lm[w.loadManager].pendingRequests = @ + 1] IN
    IF sync
    THEN markRequestCompleted([w1 EXCEPT !.obs[w1.loadManager].decodeFailed = TRUE],
                              w1.loadManager, FALSE)
    ELSE [w1 EXCEPT !.inflight = @ \cup
              {Task("decode", w1.loadManager, w.heap[sound].name, sound, NoObj)}]

SoundLoaded(t) ==
    /\ t.kind = "mp3"
    /\ \E sync \in BOOLEAN : Commit(Settle(soundCallback(Start(t), t.obj, sync), t))

\* onSuccess(buffer) of decodeAudioData
onSuccess(w, sound) ==
    markRequestCompleted([w EXCEPT !.heap[sound].loaded = TRUE], w.loadManager, TRUE)

\* onFailure() of decodeAudioData
onFailure(w) ==
    markRequestCompleted([w EXCEPT !.obs[w.loadManager].decodeFailed = TRUE],
                         w.loadManager, FALSE)

DecodeSuccess(t) ==
    /\ t.kind = "decode"
    /\ Commit(onSuccess(Start(t), t.obj))

DecodeFailure(t) ==
    /\ t.kind = "decode"
    /\ Commit(onFailure(Start(t)))

\* loadSpritesheetJSONCallback(spritesheetJson) of loadMap, closed over map
loadSpritesheetJSONCallback(w, map) ==
    loadSpritesheet(w, Name(w.heap[map].name.asset, ".spritesheet"),
                    SpriteUrlOf(w.heap[map].jsonURL), map)

MapSpritesheetJSONLoaded(t) ==
    /\ t.kind = "sheetjson"
    /\ Commit(Settle(loadSpritesheetJSONCallback(Start(t), t.obj), t))

\* setTimeout(runCallbackWhenLoaded, 8) expires
PollTimer(t) ==
    /\ t.kind = "poll"
    /\ Commit(runCallbackWhenLoaded(Start(t), t.sess, t.obj, t.cb))

\* json.sprite_size of a spritesheet's metadata, and the size of its image
\* (spritesheet.size, set when the image was compiled)
SpriteSizeOf(jsonURL) == [x |-> 16, y |-> 16]

ImageSizeOf(jsonURL) == [x |-> 64, y |-> 32]

\* What loadTMXCallback reads of a tile document: whether the tileset's name
\* is the one the map metadata expects, tilewidth x tileheight, and the
\* width x height of the tileset's image.
TileDocs ==
    [nameOK : BOOLEAN,
     sprite_size : {[x |-> 16, y |-> 16], [x |-> 8, y |-> 16], [x |-> 16, y |-> 8]},
     size : {[x |-> 64, y |-> 32], [x |-> 32, y |-> 32], [x |-> 64, y |-> 64]}]

\* whether the tile document and the spritesheet disagree about a size
SizeMismatch(w, map, doc) ==
    LET sheetURL == w.heap[w.heap[map].spritesheet].jsonURL IN
    \/ SpriteSizeOf(sheetURL) # doc.sprite_size
    \/ ImageSizeOf(sheetURL) # doc.size

\* loadTMXCallback without the two size checks
loadTMXCallbackUnchecked(w, map, doc) ==
    IF ~doc.nameOK THEN [w EXCEPT !.thrown = TRUE]
    ELSE [w EXCEPT !.heap[map].layers = TRUE,
                   !.obs[w.running].mismatch =
                       IF SizeMismatch(w, map, doc) THEN @ \cup {map} ELSE @]

\* loadTMXCallback(xml) of loadMap
loadTMXCallback(w, map, doc) ==
    LET sheet == w.heap[map].spritesheet
        sheetURL == w.heap[sheet].jsonURL
    IN  IF ~doc.nameOK THEN [w EXCEPT !.thrown = TRUE]
        ELSE IF \/ SpriteSizeOf(sheetURL).x # doc.sprite_size.x
                \/ SpriteSizeOf(sheetURL).y # doc.sprite_size.y
        THEN [w EXCEPT !.thrown = TRUE, !.obs[w.running].mismatch = @ \cup {map}]
        ELSE IF \/ ImageSizeOf(sheetURL).x # doc.size.x
                \/ ImageSizeOf(sheetURL).y # doc.size.y
        THEN [w EXCEPT !.thrown = TRUE, !.obs[w.running].mismatch = @ \cup {map}]
        ELSE [w EXCEPT !.heap[map].layers = TRUE]

TMXLoaded(t) ==
    /\ t.kind = "tmx"
    /\ \E doc \in TileDocs :
          Commit(Settle(loadTMXCallback(Start(t), t.obj, doc), t))

\* loadFailureCallback returning true
loadFailureCallbackTolerates == TRUE

\* function loadFailureCallback(reason, url): logs, returns undefined
loadFailureCallback == FALSE

\* the failure continuation of the debug.json fetch: return true
debugFailureCallback == TRUE

\* What the failure continuation registered with a fetch returns (a fetch
\* registered without one counts as FALSE).
FailureContinuation(kind) ==
    CASE kind = "debug" -> debugFailureCallback
      [] kind \in {"game", "fontpng", "sheetpng", "mp3", "sheetjson", "tmx"} ->
             loadFailureCallback
      [] OTHER -> FALSE

\* A fetch fails: the LoadManager asks the failure continuation and treats
\* a tolerated failure as a completed request.
FetchFailed(t) ==
    /\ t.kind \in FetchKinds
    /\ LET w == [Start(t) EXCEPT
                    !.obs[t.sess].debugFailed = @ \/ t.kind = "debug",
                    !.obs[t.sess].fetchFailed = @ \/ t.kind # "debug"] IN
       Commit(markRequestCompleted(w, t.sess, FailureContinuation(t.kind)))

\* ------------------------------------------------------ specifications
Init ==
    /\ useIDE \in BOOLEAN
    /\ fastReload \in BOOLEAN
    /\ manifest \in Manifests
    /\ loadManager = 0
    /\ lm = <<>>
    /\ assetCache = [u \in AssetURLs |-> NoObj]
    /\ heap = <<>>
    /\ spritesheetArray = <<>>
    /\ fontArray = <<>>
    /\ gameSource = NewGameSource
    /\ inflight = {}
    /\ obs = <<>>
    /\ constructed = [u \in AssetURLs |-> 0]
    /\ returned = [u \in AssetURLs |-> {}]
    /\ lastHit = NoObj
    /\ gameJSON = [constants |-> <<>>, assets |-> {}]
    /\ resolving = [pc |-> "idle"]
    /\ args = [fn |-> "none"]
    /\ result = [pc |-> "idle"]

\* any number of loads, each possibly started while the last is in flight
Next ==
    \/ afterLoadGame(MaxSessions)
    \/ \E t \in inflight : DebugJSONLoaded(t)
    \/ \E t \in inflight : GameJSONLoaded(t, PlainGames)
    \/ \E t \in inflight : TextLoaded(t)
    \/ \E t \in inflight : AssetJSONLoaded(t)
    \/ \E t \in inflight : FontImageLoaded(t)
    \/ \E t \in inflight : SpritesheetImageLoaded(t)
    \/ \E t \in inflight : SoundLoaded(t)
    \/ \E t \in inflight : DecodeSuccess(t)
    \/ \E t \in inflight : DecodeFailure(t)
    \/ \E t \in inflight : MapSpritesheetJSONLoaded(t)
    \/ \E t \in inflight : PollTimer(t)
    \/ \E t \in inflight : TMXLoaded(t)
    \/ \E t \in inflight : FetchFailed(t)

Spec == Init /\ [][Next]_vars

\* one call of afterLoadGame
NextOne ==
    \/ afterLoadGame(1)
    \/ \E t \in inflight : DebugJSONLoaded(t)
    \/ \E t \in inflight : GameJSONLoaded(t, PlainGames)
    \/ \E t \in inflight : TextLoaded(t)
    \/ \E t \in inflight : AssetJSONLoaded(t)
    \/ \E t \in inflight : FontImageLoaded(t)
    \/ \E t \in inflight : SpritesheetImageLoaded(t)
    \/ \E t \in inflight : SoundLoaded(t)
    \/ \E t \in inflight : DecodeSuccess(t)
    \/ \E t \in inflight : DecodeFailure(t)
    \/ \E t \in inflight : MapSpritesheetJSONLoaded(t)
    \/ \E t \in inflight : PollTimer(t)
    \/ \E t \in inflight : TMXLoaded(t)
    \/ \E t \in inflight : FetchFailed(t)

SpecOne == Init /\ [][NextOne]_vars

\* A fetch or an audio decode that was issued completes: its success
\* continuation runs or it fails.
Completes(t) ==
    \/ DebugJSONLoaded(t)
    \/ GameJSONLoaded(t, PlainGames)
    \/ TextLoaded(t)
    \/ AssetJSONLoaded(t)
    \/ FontImageLoaded(t)
    \/ SpritesheetImageLoaded(t)
    \/ SoundLoaded(t)
    \/ DecodeSuccess(t)
    \/ DecodeFailure(t)
    \/ MapSpritesheetJSONLoaded(t)
    \/ TMXLoaded(t)
    \/ FetchFailed(t)

\* the games whose manifest declares a spritesheet and a map drawn with it,
\* two maps drawn with one spritesheet, or a font and a sound
InitFair ==
    /\ Init
    /\ useIDE
    /\ ~fastReload
    /\ manifest \in {<<SheetQ, MapM>>, <<MapM, MapQ>>, <<FontQ, SoundS>>}

\* one call of afterLoadGame in an environment where every issued fetch
\* completes and every timer set by setTimeout expires
FairOne ==
    /\ InitFair
    /\ [][NextOne]_vars
    /\ WF_vars(\E t \in inflight : Completes(t))
    /\ WF_vars(\E t \in inflight : PollTimer(t))

\* one load of a game with one asset, over every game document of Games
InitGame ==
    /\ Init
    /\ Len(manifest) = 1

NextGame ==
    \/ afterLoadGame(1)
    \/ \E t \in inflight : DebugJSONLoaded(t)
    \/ \E t \in inflight : GameJSONLoaded(t, Games)
    \/ \E t \in inflight : TextLoaded(t)
    \/ \E t \in inflight : AssetJSONLoaded(t)
    \/ \E t \in inflight : ConstantLoaded(t)
    \/ \E t \in inflight : FontImageLoaded(t)
    \/ \E t \in inflight : SpritesheetImageLoaded(t)
    \/ \E t \in inflight : SoundLoaded(t)
    \/ \E t \in inflight : DecodeSuccess(t)
    \/ \E t \in inflight : DecodeFailure(t)
    \/ \E t \in inflight : MapSpritesheetJSONLoaded(t)
    \/ \E t \in inflight : TMXLoaded(t)
    \/ \E t \in inflight : FetchFailed(t)

SpecGame == InitGame /\ [][NextGame]_vars

\* ------------------------------------------------- reference constants
\* Object.keys(gameJSON.constants), sorted
Keys == <<"A", "B", "C">>

\* what a reference may name: a constant, the asset X, or nothing (Z)
Targets == {"A", "B", "C", "X", "Z"}

\* gameJSON.constants[c]: an inline number, a raw or table constant loaded
\* from the url in value, or a reference to value
Definitions ==
    {[type |-> "number", value |-> "1"], [type |-> "url", value |-> "c.json"]} \cup
    {[type |-> "reference", value |-> id] : id \in Targets}

ConstantTables == [{Keys[k] : k \in 1..Len(Keys)} -> Definitions]

\* gameJSON.constants[id], undefined when the table has no such key
DefinitionOf(table, id) ==
    IF id \in DOMAIN table THEN table[id]
    ELSE [type |-> "undefined", value |-> ""]

\* the locals of the loop over keys that evaluates the references: i indexes
\* Keys, constants is gameSource.constants, path the message built so far,
\* error the exception raised
ResolveFrom(constants) ==
    [pc |-> "for", i |-> 1, c |-> "", id |-> "", definition |-> DefinitionOf(<<>>, ""),
     alreadySeen |-> {}, path |-> <<>>, constants |-> constants, error |-> <<>>]

\* for (let i = 0; i < keys.length; ++i): the head of the loop, up to the do
forEachKey(r) ==
    IF r.i > Len(Keys) THEN [r EXCEPT !.pc = "done"]
    ELSE LET c == Keys[r.i]
             definition == gameJSON.constants[c]
         IN  IF definition.type = "reference"
             THEN [r EXCEPT !.pc = "do", !.c = c, !.definition = definition,
                            !.id = "", !.alreadySeen = {c}, !.path = <<c>>]
             ELSE [r EXCEPT !.i = @ + 1]

\* the body of the do loop with the test made before the path is extended
doWhileChecksFirst(r) ==
    LET id == r.definition.value IN
    IF id \in r.alreadySeen
    THEN [r EXCEPT !.pc = "thrown", !.id = id,
                   !.error = <<"Cycle in reference chain: ", r.path>>]
    ELSE LET definition == DefinitionOf(gameJSON.constants, id) IN
         [r EXCEPT !.id = id, !.path = Append(r.path, id), !.definition = definition,
                   !.pc = IF definition.type = "reference" THEN "do" ELSE "after"]

\* one pass of do { ... } while (definition && definition.type === 'reference')
doWhile(r) ==
    LET id == r.definition.value
        path == Append(r.path, id)
    IN  IF id \in r.alreadySeen
        THEN [r EXCEPT !.pc = "thrown", !.id = id, !.path = path,
                       !.error = <<"Cycle in reference chain: ", path>>]
        ELSE LET definition == DefinitionOf(gameJSON.constants, id) IN
             [r EXCEPT !.id = id, !.path = path, !.definition = definition,
                       !.pc = IF definition.type = "reference" THEN "do" ELSE "after"]

\* the statements after the do loop storing the identifier the chain ended at
storeReferenceToEnd(r) ==
    IF r.id \in DOMAIN r.constants \/ r.id \in gameJSON.assets
    THEN [r EXCEPT !.pc = "for", !.i = @ + 1,
                   !.constants = [k \in DOMAIN @ \cup {r.c} |->
                                     IF k = r.c
                                     THEN <<"GlobalReference", r.id>>
                                     ELSE @[k]]]
    ELSE [r EXCEPT !.pc = "thrown", !.error = <<"Unresolved reference: ", r.path>>]

\* the statements after the do loop: store the reference or raise
storeReference(r) ==
    IF r.id \in DOMAIN r.constants \/ r.id \in gameJSON.assets
    THEN [r EXCEPT !.pc = "for", !.i = @ + 1,
                   !.constants = [k \in DOMAIN @ \cup {r.c} |->
                                     IF k = r.c
                                     THEN <<"GlobalReference", gameJSON.constants[r.c].value>>
                                     ELSE @[k]]]
    ELSE [r EXCEPT !.pc = "thrown", !.error = <<"Unresolved reference: ", r.path>>]

ForEachKey ==
    /\ resolving.pc = "for"
    /\ resolving' = forEachKey(resolving)
    /\ UNCHANGED <<loaderVars, gameJSON, args, result>>

\* The loop has no bound of its own; MaxPath bounds the chain the model follows.
DoWhile ==
    /\ resolving.pc = "do"
    /\ Len(resolving.path) < MaxPath
    /\ resolving' = doWhile(resolving)
    /\ UNCHANGED <<loaderVars, gameJSON, args, result>>

StoreReference ==
    /\ resolving.pc = "after"
    /\ resolving' = storeReference(resolving)
    /\ UNCHANGED <<loaderVars, gameJSON, args, result>>

\* The game.json continuation reaches "Now evaluate references": the inline
\* constants have been stored, the fetches of the constants loaded from a url
\* are registered and none has completed, the assets are declared.
InitAlias ==
    /\ useIDE = FALSE
    /\ fastReload = FALSE
    /\ manifest = <<SheetA>>
    /\ loadManager = 0
    /\ lm = <<>>
    /\ assetCache = [u \in AssetURLs |-> NoObj]
    /\ heap = <<>>
    /\ spritesheetArray = <<>>
    /\ fontArray = <<>>
    /\ gameSource = NewGameSource
    /\ inflight = {}
    /\ obs = <<>>
    /\ constructed = [u \in AssetURLs |-> 0]
    /\ returned = [u \in AssetURLs |-> {}]
    /\ lastHit = NoObj
    /\ args = [fn |-> "none"]
    /\ result = [pc |-> "idle"]
    /\ \E table \in ConstantTables :
          /\ gameJSON = [constants |-> table, assets |-> {"X"}]
          /\ resolving = ResolveFrom([k \in {c \in DOMAIN table : table[c].type = "number"}
                                        |-> "1"])

NextAlias == ForEachKey \/ DoWhile \/ StoreReference

SpecAlias == InitAlias /\ [][NextAlias]_vars

\* ------------------------------------------------- spritesheet compile
\* What the image continuation of loadSpritesheet reads: the size of the
\* image data and json.sprite_size, json.gutter, json.transpose, json.names.
SheetInput(width, height, sx, sy, gutter, transpose, names) ==
    [fn |-> "compile", width |-> width, height |-> height,
     sprite_size |-> [x |-> sx, y |-> sy], gutter |-> gutter, transpose |-> transpose,
     names |-> names]

\* An entry of json.names: a named sprite has x and y (single), an animation
\* a start and an end.
NameEntry(name, single, sx, sy, ex, ey) ==
    [name |-> name, single |-> single,
     start |-> [x |-> sx, y |-> sy], end |-> [x |-> ex, y |-> ey]]

\* no names, a named sprite, a horizontal run, a vertical run with a named
\* sprite, a run that is not in a line, a named sprite left of the sheet,
\* a run followed by a named sprite in the third row, and a run whose end
\* is before its start (it has no cell)
NameTables ==
    {<<>>,
     <<NameEntry("idle", TRUE, 0, 0, 0, 0)>>,
     <<NameEntry("run", FALSE, 0, 0, 1, 0)>>,
     <<NameEntry("climb", FALSE, 0, 0, 0, 1), NameEntry("idle", TRUE, 1, 0, 1, 0)>>,
     <<NameEntry("slide", FALSE, 0, 0, 1, 1)>>,
     <<NameEntry("idle", TRUE, 0 - 1, 0, 0 - 1, 0)>>,
     <<NameEntry("run", FALSE, 0, 0, 2, 0), NameEntry("far", TRUE, 0, 2, 0, 2)>>,
     <<NameEntry("back", FALSE, 5, 0, 0, 0)>>}

\* the offsets used for scale flipping
scales ==
    [PP |-> [x |-> 1, y |-> 1], NP |-> [x |-> 0 - 1, y |-> 1],
     PN |-> [x |-> 1, y |-> 0 - 1], NN |-> [x |-> 0 - 1, y |-> 0 - 1]]

\* Object.assign(target, source) on the properties of a sprite that differ
\* between its versions; "none", and -1 for the id, is a property the object
\* does not have
assign(target, source) ==
    [scale |-> IF source.scale # "none" THEN source.scale ELSE target.scale,
     orientation_id |-> IF source.orientation_id # 0 - 1 THEN source.orientation_id
                        ELSE target.orientation_id,
     x_flipped |-> IF source.x_flipped # "none" THEN source.x_flipped ELSE target.x_flipped,
     y_flipped |-> IF source.y_flipped # "none" THEN source.y_flipped ELSE target.y_flipped]

NoVersion == [scale |-> "none", orientation_id |-> 0 - 1, x_flipped |-> "none", y_flipped |-> "none"]

\* The objects "Create flipped versions" makes of a sprite of the given id,
\* statement by statement: "sprite" itself, "x_flipped", "y_flipped" and
\* "xy_flipped", the one object assigned to both x_flipped.y_flipped and
\* y_flipped.x_flipped. x_flipped and y_flipped of a version name the object
\* the property refers to.
flippedVersions(id) ==
    LET sprite0 == [NoVersion EXCEPT !.scale = "PP", !.orientation_id = id]
        x1 == assign([NoVersion EXCEPT !.x_flipped = "sprite"], sprite0)
        sprite1 == [sprite0 EXCEPT !.x_flipped = "x_flipped"]
        x2 == [x1 EXCEPT !.scale = "NP", !.orientation_id = @ + 1]
        y1 == assign([NoVersion EXCEPT !.y_flipped = "sprite"], sprite1)
        sprite2 == [sprite1 EXCEPT !.y_flipped = "y_flipped"]
        y2 == [y1 EXCEPT !.orientation_id = @ + 2, !.scale = "PN"]
        xy1 == assign(NoVersion, sprite2)
        x3 == [x2 EXCEPT !.y_flipped = "xy_flipped"]
        y3 == [y2 EXCEPT !.x_flipped = "xy_flipped"]
        xy2 == [xy1 EXCEPT !.scale = "NN", !.orientation_id = @ + 3]
    IN  [sprite |-> sprite2, x_flipped |-> x3, y_flipped |-> y3, xy_flipped |-> xy2]

\* the sprite literal of cell (x, y) and the three flipped copies made of it
Sprite(in, x, y, rows, lastSpriteID) ==
    LET u == IF in.transpose THEN y ELSE x
        v == IF in.transpose THEN x ELSE y
        id == lastSpriteID + 3 * (x * rows + y)
        versions == flippedVersions(id)
    IN  [tile_index |-> [x |-> u, y |-> v],
         x |-> u * (in.sprite_size.x + in.gutter),
         y |-> v * (in.sprite_size.y + in.gutter),
         id |-> id,
         orientation_id |-> versions.sprite.orientation_id,
         scale |-> versions.sprite.scale,
         x_flipped |-> [scale |-> versions.x_flipped.scale,
                        orientation_id |-> versions.x_flipped.orientation_id],
         y_flipped |-> [scale |-> versions.y_flipped.scale,
                        orientation_id |-> versions.y_flipped.orientation_id],
         xy_flipped |-> [scale |-> versions.xy_flipped.scale,
                         orientation_id |-> versions.xy_flipped.orientation_id],
         versions |-> versions]

\* the grid computed with sprite_size.x for the rows as well
compileGridSquare(in, lastSpriteID) ==
    LET rows0 == (in.height + in.gutter) \div (in.sprite_size.x + in.gutter)
        cols0 == (in.width + in.gutter) \div (in.sprite_size.x + in.gutter)
        rows == IF in.transpose THEN cols0 ELSE rows0
        cols == IF in.transpose THEN rows0 ELSE cols0
    IN  IF rows = 0 \/ cols = 0 THEN [pc |-> "thrown"]
        ELSE [pc |-> "returned",
              spritesheet |-> [x \in 0..(cols - 1) |->
                                  [y \in 0..(rows - 1) |->
                                      Sprite(in, x, y, rows, lastSpriteID)]]]

\* the grid with at least one row and one column, whatever the sizes
compileGridAtLeastOne(in, lastSpriteID) ==
    LET rows0 == (in.height + in.gutter) \div (in.sprite_size.y + in.gutter)
        cols0 == (in.width + in.gutter) \div (in.sprite_size.x + in.gutter)
        rows1 == IF in.transpose THEN cols0 ELSE rows0
        cols1 == IF in.transpose THEN rows0 ELSE cols0
        rows == IF rows1 = 0 THEN 1 ELSE rows1
        cols == IF cols1 = 0 THEN 1 ELSE cols1
    IN  [pc |-> "returned",
         spritesheet |-> [x \in 0..(cols - 1) |->
                             [y \in 0..(rows - 1) |->
                                 Sprite(in, x, y, rows, lastSpriteID)]]]

\* The grid of sprites the image continuation of loadSpritesheet builds:
\* spritesheet[x][y], or the error raised for an empty grid.
compileGrid(in, lastSpriteID) ==
    LET rows0 == (in.height + in.gutter) \div (in.sprite_size.y + in.gutter)
        cols0 == (in.width + in.gutter) \div (in.sprite_size.x + in.gutter)
        rows == IF in.transpose THEN cols0 ELSE rows0
        cols == IF in.transpose THEN rows0 ELSE cols0
    IN  IF rows = 0 \/ cols = 0 THEN [pc |-> "thrown"]
        ELSE [pc |-> "returned",
              spritesheet |-> [x \in 0..(cols - 1) |->
                                  [y \in 0..(rows - 1) |->
                                      Sprite(in, x, y, rows, lastSpriteID)]]]

\* the cells (u, v) of the sheet an entry of json.names refers to, in the
\* order of the loops over y and x
entryCells(in, entry) ==
    LET wide == entry.end.x - entry.start.x + 1
        high == entry.end.y - entry.start.y + 1
    IN  [k \in 1..(wide * high) |->
            LET x == entry.start.x + ((k - 1) % wide)
                y == entry.start.y + ((k - 1) \div wide)
            IN  IF in.transpose THEN <<y, x>> ELSE <<x, y>>]

\* The objects the compilation makes, and what it does to them in order:
\* writing a property or an element, and Object.freeze.
Obj(kind, x, y, version, name) ==
    [kind |-> kind, x |-> x, y |-> y, version |-> version, name |-> name]

TheSheet == Obj("spritesheet", 0, 0, "none", "none")

Column(x) == Obj("column", x, 0, "none", "none")

Version(cell, version) == Obj("sprite", cell[1], cell[2], version, "none")

Animation(name) == Obj("animation", 0, 0, "none", name)

Write(obj) == [op |-> "write", obj |-> obj]

Freeze(obj) == [op |-> "freeze", obj |-> obj]

RECURSIVE Concat(_)
Concat(seqs) == IF seqs = <<>> THEN <<>> ELSE Head(seqs) \o Concat(Tail(seqs))

\* the loops that create the sprites, a column at a time
createLog(cols, rows) ==
    Concat([i \in 1..cols |->
               <<Write(TheSheet)>> \o [j \in 1..rows |-> Write(Column(i - 1))]
                  \o <<Freeze(Column(i - 1))>>])

\* "Process the name table"
namesLog(in, names) ==
    Concat([n \in DOMAIN names |->
               IF names[n].single
               THEN <<Write(TheSheet), Write(Version(entryCells(in, names[n])[1], "sprite"))>>
               ELSE <<Write(TheSheet), Write(Animation(names[n].name))>>
                       \o Concat([k \in DOMAIN entryCells(in, names[n]) |->
                                     <<Write(Version(entryCells(in, names[n])[k], "sprite")),
                                       Write(Animation(names[n].name))>>])
                       \o <<Write(Animation(names[n].name)),
                            Freeze(Animation(names[n].name))>>])

\* "Create flipped versions and freeze", for the sprite of one cell
flipLog(cell) ==
    <<Write(Version(cell, "sprite")), Write(Version(cell, "x_flipped")),
      Write(Version(cell, "sprite")), Write(Version(cell, "y_flipped")),
      Write(Version(cell, "y_flipped")), Write(Version(cell, "x_flipped")),
      Write(Version(cell, "xy_flipped")),
      Freeze(Version(cell, "x_flipped")), Freeze(Version(cell, "y_flipped")),
      Freeze(Version(cell, "xy_flipped")), Freeze(Version(cell, "sprite"))>>

\* the compilation freezing the sheet before it makes the flipped versions
compileLogSheetFirst(in, cols, rows) ==
    createLog(cols, rows) \o namesLog(in, in.names) \o <<Freeze(TheSheet)>>
       \o Concat([k \in 1..(cols * rows) |-> flipLog(<<(k - 1) \div rows, (k - 1) % rows>>)])

\* what the image continuation of loadSpritesheet does to the objects of the
\* sheet, up to the call of the callback
compileLog(in, cols, rows) ==
    createLog(cols, rows) \o namesLog(in, in.names)
       \o Concat([k \in 1..(cols * rows) |-> flipLog(<<(k - 1) \div rows, (k - 1) % rows>>)])
       \o <<Freeze(TheSheet)>>

\* the test of a cell with the index clamped to the sheet
outOfBoundsClamped(cell, sheet) == FALSE

\* u < 0 || u >= spritesheet.length || v < 0 || v >= spritesheet[0].length
outOfBounds(cell, sheet) ==
    \/ cell[1] < 0 \/ cell[1] >= Cardinality(DOMAIN sheet)
    \/ cell[2] < 0 \/ cell[2] >= Cardinality(DOMAIN sheet[0])

\* the test for a run along both axes left out
notInLineUnchecked(entry) == FALSE

\* data.start.x !== data.end.x && data.start.y !== data.end.y
notInLine(entry) ==
    entry.start.x # entry.end.x /\ entry.start.y # entry.end.y

\* the body of the loop over json.names for one entry: the error it raises,
\* or "none", and what it did to the objects of the sheet until then
entryLog(in, entry, sheet) ==
    LET cells == entryCells(in, entry)
        bad == {k \in DOMAIN cells : outOfBounds(cells[k], sheet)}
        first == CHOOSE k \in bad : \A j \in bad : k <= j
        visit(k) == <<Write(Version(cells[k], "sprite")), Write(Animation(entry.name))>>
    IN  IF entry.single
        THEN IF outOfBounds(cells[1], sheet)
             THEN [error |-> "Named sprite is out of bounds", log |-> <<>>]
             ELSE [error |-> "none",
                   log |-> <<Write(TheSheet), Write(Version(cells[1], "sprite"))>>]
        ELSE IF notInLine(entry)
        THEN [error |-> "Animation frames must be in a horizontal or vertical line",
              log |-> <<>>]
        ELSE IF bad # {}
        THEN [error |-> "Index in animation is out of bounds",
              log |-> <<Write(TheSheet), Write(Animation(entry.name))>>
                         \o Concat([k \in 1..(first - 1) |-> visit(k)])]
        ELSE [error |-> "none",
              log |-> <<Write(TheSheet), Write(Animation(entry.name))>>
                         \o Concat([k \in DOMAIN cells |-> visit(k)])
                         \o <<Write(Animation(entry.name)), Freeze(Animation(entry.name))>>]

RECURSIVE processNames(_, _, _)
\* for (let anim in json.names): the entries in order, up to the first error
processNames(in, names, sheet) ==
    IF names = <<>> THEN [error |-> "none", log |-> <<>>]
    ELSE LET entry == entryLog(in, Head(names), sheet) IN
         IF entry.error # "none" THEN entry
         ELSE LET rest == processNames(in, Tail(names), sheet) IN
              [error |-> rest.error, log |-> entry.log \o rest.log]

\* The image continuation of loadSpritesheet: the grid, the name table, the
\* flipped versions and the freeze, or the error it raises with what was
\* done to the objects of the sheet before it.
compile(in, lastSpriteID) ==
    LET grid == compileGrid(in, lastSpriteID)
        names == processNames(in, in.names, grid.spritesheet)
    IN  IF grid.pc = "thrown"
        THEN [pc |-> "thrown", log |-> <<>>,
              error |-> "sprite_size is larger than the entire spritesheet"]
        ELSE IF names.error # "none"
        THEN [pc |-> "thrown", error |-> names.error,
              log |-> createLog(Cardinality(DOMAIN grid.spritesheet),
                                Cardinality(DOMAIN grid.spritesheet[0])) \o names.log]
        ELSE [pc |-> "returned",
              spritesheet |-> grid.spritesheet,
              names |-> [n \in DOMAIN in.names |->
                            [name |-> in.names[n].name, single |-> in.names[n].single,
                             cells |-> entryCells(in, in.names[n])]],
              log |-> compileLog(in, Cardinality(DOMAIN grid.spritesheet),
                                 Cardinality(DOMAIN grid.spritesheet[0]))]

\* image sizes up to MaxSide with sprites up to MaxSpriteSide and gutters up
\* to MaxGutter, and the 64 x 32 sheet of 16 x 16 sprites
SheetInputs ==
    {SheetInput(w, h, sx, sy, g, t, n) :
        w \in 1..MaxSide, h \in 1..MaxSide,
        sx \in 1..MaxSpriteSide, sy \in 1..MaxSpriteSide,
        g \in 0..MaxGutter, t \in BOOLEAN, n \in NameTables}
    \cup {SheetInput(64, 32, 16, 16, 0, t, <<>>) : t \in BOOLEAN}

CompileSpritesheet ==
    /\ args.fn = "compile"
    /\ result.pc = "idle"
    /\ result' = compile(args, 0)
    /\ UNCHANGED <<loaderVars, gameJSON, resolving, args>>

\* ------------------------------------------------- animation sampling
\* Counters and frame durations are counted in quarters of a frame, the
\* least duration a sprite of an animation can have.
Unit == 4

Infinity == "Infinity"

Max(a, b) == IF a >= b THEN a ELSE b

Min(a, b) == IF a <= b THEN a ELSE b

\* Math.floor of a number of quarter frames
Floor(f) == Unit * (f \div Unit)

\* the % of JavaScript for a positive divisor: the sign of the dividend
JSRem(a, b) == IF a >= 0 THEN a % b ELSE 0 - ((0 - a) % b)

RECURSIVE SumFrames(_, _)
SumFrames(sprites, weight) ==
    IF sprites = <<>> THEN 0
    ELSE weight[Len(sprites)] * sprites[Len(sprites)].frames
            + SumFrames(SubSeq(sprites, 1, Len(sprites) - 1), weight)

\* the animation with every sprite of an oscillation counted once
makeAnimationOnce(extrapolate, frames) ==
    LET sprites == [i \in 1..Len(frames) |-> [index |-> i - 1, frames |-> Max(1, frames[i])]]
        N == Len(sprites)
        once == [i \in 1..N |-> 1]
    IN  [extrapolate |-> extrapolate,
         sprites |-> sprites,
         period |-> CASE extrapolate = "oscillate" -> SumFrames(sprites, once)
                      [] extrapolate = "loop" -> SumFrames(sprites, once)
                      [] OTHER -> 0,
         frames |-> IF extrapolate = "clamp" THEN SumFrames(sprites, once) ELSE Infinity]

\* The animation array the name table makes of a run of sprites:
\* frames[i] is the duration json gives sprite i.
makeAnimation(extrapolate, frames) ==
    LET sprites == [i \in 1..Len(frames) |-> [index |-> i - 1, frames |-> Max(1, frames[i])]]
        N == Len(sprites)
        once == [i \in 1..N |-> 1]
        twice == [i \in 1..N |-> IF i = 1 \/ i = N THEN 1 ELSE 2]
    IN  [extrapolate |-> extrapolate,
         sprites |-> sprites,
         period |-> CASE extrapolate = "oscillate" -> SumFrames(sprites, twice)
                      [] extrapolate = "loop" -> SumFrames(sprites, once)
                      [] OTHER -> 0,
         frames |-> IF extrapolate = "clamp" THEN SumFrames(sprites, once) ELSE Infinity]

\* the linear search with > in place of >=
RECURSIVE searchForwardStrict(_, _, _)
searchForwardStrict(animation, f, i) ==
    IF i < Len(animation.sprites) /\ f > animation.sprites[i + 1].frames
    THEN searchForwardStrict(animation, f - animation.sprites[i + 1].frames, i + 1)
    ELSE i

\* while ((i < N) && (f >= animation[i].frames)) { f -= ...; ++i; }
RECURSIVE searchForward(_, _, _)
searchForward(animation, f, i) ==
    IF i < Len(animation.sprites) /\ f >= animation.sprites[i + 1].frames
    THEN searchForward(animation, f - animation.sprites[i + 1].frames, i + 1)
    ELSE i

RECURSIVE searchBackward(_, _, _)

\* the backward search that stays at the penultimate sprite
searchBackwardStays(animation, f, i) == i

\* while ((i > 0) && (f >= animation[i].frames)) { f -= ...; --i; }
searchBackward(animation, f, i) ==
    IF i > 0 /\ f >= animation.sprites[i + 1].frames
    THEN searchBackward(animation, f - animation.sprites[i + 1].frames, i - 1)
    ELSE i

\* animationFrame with one % only
animationFrameTruncated(animation, f) ==
    LET N == Len(animation.sprites)
        floored == Floor(f)
        looped == JSRem(floored, animation.period)
        reverseTime2 == animation.period + animation.sprites[1].frames
                            + animation.sprites[N].frames
        at(i) == [pc |-> "returned", sprite |-> animation.sprites[i + 1]]
    IN  IF animation.extrapolate = "clamp"
        THEN IF floored < 0 THEN at(0)
             ELSE IF floored >= animation.frames THEN at(N - 1)
             ELSE at(Min(searchForward(animation, floored, 0), N - 1))
        ELSE IF animation.extrapolate = "oscillate" /\ 2 * looped >= reverseTime2
             THEN at(searchBackward(animation, looped - (reverseTime2 \div 2), N - 2))
             ELSE at(Min(searchForward(animation, looped, 0), N - 1))

\* animation.frame(f): the sprite of the animation shown at counter f.
\* reverseTime2 is twice reverseTime, which is whole whenever the reversed
\* part of an oscillation is not empty.
animationFrame(animation, f) ==
    LET N == Len(animation.sprites)
        floored == Floor(f)
        looped == JSRem(JSRem(floored, animation.period) + animation.period,
                        animation.period)
        reverseTime2 == animation.period + animation.sprites[1].frames
                            + animation.sprites[N].frames
        at(i) == [pc |-> "returned", sprite |-> animation.sprites[i + 1]]
    IN  IF animation.extrapolate = "clamp"
        THEN IF floored < 0 THEN at(0)
             ELSE IF floored >= animation.frames THEN at(N - 1)
             ELSE at(Min(searchForward(animation, floored, 0), N - 1))
        ELSE IF animation.extrapolate = "oscillate" /\ 2 * looped >= reverseTime2
             THEN at(searchBackward(animation, looped - (reverseTime2 \div 2), N - 2))
             ELSE at(Min(searchForward(animation, looped, 0), N - 1))

\* the durations json gives a sprite: none, a whole and a fractional number
\* of frames
FrameDurations == {0, Unit, Unit + 2, 2 * Unit, 3 * Unit}

\* every animation up to the bounds at every counter up to the bounds, and
\* the clamp animation of durations 2 and 3 at counter 100
FrameInputs ==
    {[fn |-> "frame", extrapolate |-> e, frames |-> d, f |-> f] :
        e \in {"clamp", "loop", "oscillate"},
        d \in UNION {[1..n -> FrameDurations] : n \in 1..MaxFrames},
        f \in (0 - Unit * MaxCounter)..(Unit * MaxCounter)}
    \cup {[fn |-> "frame", extrapolate |-> "clamp", frames |-> <<2 * Unit, 3 * Unit>>,
           f |-> 100 * Unit]}

AnimationFrame ==
    /\ args.fn = "frame"
    /\ result.pc = "idle"
    /\ result' = animationFrame(makeAnimation(args.extrapolate, args.frames), args.f)
    /\ UNCHANGED <<loaderVars, gameJSON, resolving, args>>

\* ------------------------------------------------- literal values
\* A string is the sequence of its characters. A character outside ASCII is
\* written as a name in angle brackets: "<1/4>" is the one character VULGAR
\* FRACTION ONE QUARTER, "<pi>" the Greek small letter pi, "<deg>" the
\* degree sign, "<inf>" the infinity sign, "<nil>" the empty-set sign.
\* A value is a number n/d, times pi where pi = 1, or one of the other
\* values a literal can have; numbers are exact, not rounded to a double.
Number(n, d, pi) == [kind |-> "number", n |-> n, d |-> d, pi |-> pi, text |-> <<>>]

Special(kind) == [kind |-> kind, n |-> 0, d |-> 1, pi |-> 0, text |-> <<>>]

Signed(kind, sign) == [kind |-> kind, n |-> sign, d |-> 1, pi |-> 0, text |-> <<>>]

String(text) == [kind |-> "string", n |-> 0, d |-> 1, pi |-> 0, text |-> text]

NaN == Special("NaN")

Digits == <<"0", "1", "2", "3", "4", "5", "6", "7", "8", "9">>

IsDigit(c) == \E i \in 1..Len(Digits) : Digits[i] = c

DigitValue(c) == (CHOOSE i \in 1..Len(Digits) : Digits[i] = c) - 1

UpperCase == <<"D", "E", "G", "I", "L", "N", "P", "R", "T", "U">>

LowerCase == <<"d", "e", "g", "i", "l", "n", "p", "r", "t", "u">>

\* String.prototype.toLowerCase, for the capital letters the inputs use
toLowerCase(s) ==
    [i \in 1..Len(s) |->
        IF \E k \in 1..Len(UpperCase) : UpperCase[k] = s[i]
        THEN LowerCase[CHOOSE k \in 1..Len(UpperCase) : UpperCase[k] = s[i]]
        ELSE s[i]]

Drop(s, k) == SubSeq(s, k + 1, Len(s))

EndsWith(s, suffix) ==
    Len(s) >= Len(suffix) /\ SubSeq(s, Len(s) - Len(suffix) + 1, Len(s)) = suffix

IsSpace(c) == c \in {" ", "\t", "\n"}

\* the number of digits, and of white space characters, at the start of s
RECURSIVE DigitRun(_)
DigitRun(s) == IF s # <<>> /\ IsDigit(s[1]) THEN 1 + DigitRun(Tail(s)) ELSE 0

RECURSIVE SpaceRun(_)
SpaceRun(s) == IF s # <<>> /\ IsSpace(s[1]) THEN 1 + SpaceRun(Tail(s)) ELSE 0

\* String.prototype.trim
RECURSIVE trimEnd(_)
trimEnd(s) == IF s # <<>> /\ IsSpace(s[Len(s)]) THEN trimEnd(SubSeq(s, 1, Len(s) - 1)) ELSE s

trim(s) == trimEnd(Drop(s, SpaceRun(s)))

RECURSIVE Pow10(_)
Pow10(k) == IF k = 0 THEN 1 ELSE 10 * Pow10(k - 1)

\* the number a string of digits denotes
RECURSIVE DigitsValue(_)
DigitsValue(s) ==
    IF s = <<>> THEN 0 ELSE 10 * DigitsValue(SubSeq(s, 1, Len(s) - 1)) + DigitValue(s[Len(s)])

\* parseFloat: the longest prefix of the string, after leading white space,
\* that is a decimal literal, or NaN where there is none. Exponents and the
\* word Infinity are not among the inputs.
parseFloat(s) ==
    LET body == Drop(s, SpaceRun(s))
        signed == body # <<>> /\ body[1] \in {"+", "-"}
        sign == IF signed /\ body[1] = "-" THEN 0 - 1 ELSE 1
        unsigned == IF signed THEN Tail(body) ELSE body
        whole == SubSeq(unsigned, 1, DigitRun(unsigned))
        rest == Drop(unsigned, Len(whole))
        dotted == rest # <<>> /\ rest[1] = "."
        fraction == IF dotted THEN SubSeq(Tail(rest), 1, DigitRun(Tail(rest))) ELSE <<>>
    IN  IF whole = <<>> /\ fraction = <<>> THEN NaN
        ELSE Number(sign * (DigitsValue(whole) * Pow10(Len(fraction)) + DigitsValue(fraction)),
                    Pow10(Len(fraction)), 0)

\* the tokens of the switch of $parse that are not vulgar fractions, each
\* group of case labels with the value it returns
namedTokens ==
    << <<{<<"t", "r", "u", "e">>}, Special("true")>>,
       <<{<<"f", "a", "l", "s", "e">>}, Special("false")>>,
       <<{<<"n", "i", "l">>, <<"<nil>">>, <<"b", "u", "i", "l", "t", "i", "n">>},
         Special("undefined")>>,
       <<{<<"f", "u", "n", "c", "t", "i", "o", "n">>}, Special("function")>>,
       <<{<<"i", "n", "f", "i", "n", "i", "t", "y">>, <<"<inf>">>,
          <<"+", "i", "n", "f", "i", "n", "i", "t", "y">>, <<"+", "<inf>">>},
         Signed("Infinity", 1)>>,
       <<{<<"-", "i", "n", "f", "i", "n", "i", "t", "y">>, <<"-", "<inf>">>},
         Signed("Infinity", 0 - 1)>>,
       <<{<<"n", "a", "n">>}, NaN>>,
       <<{<<"p", "i">>, <<"<pi>">>, <<"+", "p", "i">>, <<"+", "<pi>">>}, Number(1, 1, 1)>>,
       <<{<<"-", "p", "i">>, <<"-", "<pi>">>}, Number(0 - 1, 1, 1)>>,
       <<{<<"<1/4>", "p", "i">>, <<"<1/4>", "<pi>">>,
          <<"+", "<1/4>", "p", "i">>, <<"+", "<1/4>", "<pi>">>}, Number(1, 4, 1)>>,
       <<{<<"-", "<1/4>", "p", "i">>, <<"-", "<1/4>", "<pi>">>}, Number(0 - 1, 4, 1)>>,
       <<{<<"<1/2>", "p", "i">>, <<"<1/2>", "<pi>">>,
          <<"+", "<1/2>", "p", "i">>, <<"+", "<1/2>", "<pi>">>}, Number(1, 4, 1)>>,
       <<{<<"-", "<1/2>", "p", "i">>, <<"-", "<1/2>", "<pi>">>}, Number(0 - 1, 4, 1)>>,
       <<{<<"<3/4>", "p", "i">>, <<"<3/4>", "<pi>">>,
          <<"+", "<3/4>", "p", "i">>, <<"+", "<3/4>", "<pi>">>}, Number(3, 4, 1)>>,
       <<{<<"-", "<3/4>", "p", "i">>, <<"-", "<3/4>", "<pi>">>}, Number(0 - 3, 4, 1)>> >>

\* the case labels of $parse for the vulgar fractions, with the quotient
\* each returns
vulgarTokens ==
    << <<"<1/4>", 1, 4>>, <<"<1/2>", 1, 2>>, <<"<3/4>", 3, 4>>, <<"<1/3>", 1, 3>>,
       <<"<2/3>", 2, 3>>, <<"<1/5>", 1, 5>>, <<"<2/5>", 2, 5>>, <<"<3/5>", 3, 5>>,
       <<"<4/5>", 4, 5>>, <<"<1/6>", 1, 6>>, <<"<5/6>", 5, 6>>, <<"<1/7>", 1, 7>>,
       <<"<1/8>", 1, 8>>, <<"<3/8>", 3, 8>>, <<"<5/8>", 5, 8>>, <<"<7/8>", 7, 8>>,
       <<"<1/9>", 1, 9>>, <<"<1/10>", 1, 10>> >>

\* the case labels of $parse for the vulgar fractions after a minus sign
negativeVulgarTokens ==
    << <<"<1/4>", 0 - 1, 4>>, <<"<1/2>", 0 - 1, 2>>, <<"<3/4>", 0 - 3, 4>>,
       <<"<1/3>", 0 - 1, 3>>, <<"<2/3>", 0 - 2, 3>>, <<"<1/5>", 0 - 1, 5>>,
       <<"<2/5>", 0 - 2, 5>>, <<"<3/5>", 0 - 3, 5>>, <<"<4/5>", 0 - 4, 5>>,
       <<"<1/6>", 0 - 1, 6>>, <<"<5/6>", 0 - 5, 6>>, <<"<1/7>", 0 - 1, 7>>,
       <<"<1/8>", 0 - 1, 8>>, <<"<3/8>", 0 - 3, 8>>, <<"<5/8>", 0 - 5, 8>>,
       <<"<7/8>", 0 - 7, 8>>, <<"<1/9>", 0 - 1, 9>>, <<"<1/10>", 0 - 1, 10>> >>

\* n/d times pi/180, and n/d over 100
Radians(v) == IF v.kind = "number" THEN Number(v.n, v.d * 180, 1) ELSE v

Hundredth(v) == IF v.kind = "number" THEN Number(v.n, v.d * 100, 0) ELSE v

\* $parse reading the degree suffix only in letters
parseLettersOnly(source) ==
    LET token == toLowerCase(source)
        yield(v) == [pc |-> "returned", value |-> v]
    IN  IF \E k \in DOMAIN namedTokens : token \in namedTokens[k][1]
        THEN yield(namedTokens[CHOOSE k \in DOMAIN namedTokens : token \in namedTokens[k][1]][2])
        ELSE IF \E k \in DOMAIN vulgarTokens : token = <<vulgarTokens[k][1]>>
        THEN LET row == vulgarTokens[CHOOSE k \in DOMAIN vulgarTokens : token = <<vulgarTokens[k][1]>>]
             IN  yield(Number(row[2], row[3], 0))
        ELSE IF \E k \in DOMAIN negativeVulgarTokens : token = <<"-", negativeVulgarTokens[k][1]>>
        THEN LET row == negativeVulgarTokens[CHOOSE k \in DOMAIN negativeVulgarTokens :
                                                token = <<"-", negativeVulgarTokens[k][1]>>]
             IN  yield(Number(row[2], row[3], 0))
        ELSE IF EndsWith(token, <<"d", "e", "g">>)
        THEN yield(Radians(parseFloat(token)))
        ELSE IF EndsWith(token, <<"%">>)
        THEN yield(Hundredth(parseFloat(token)))
        ELSE yield(parseFloat(token))

\* $parse(source) for a source that is one bare token: the default branch
\* of the switch on the first character, where the token runs to the end
\* of the source.
parse(source) ==
    LET token == toLowerCase(source)
        yield(v) == [pc |-> "returned", value |-> v]
    IN  IF \E k \in DOMAIN namedTokens : token \in namedTokens[k][1]
        THEN yield(namedTokens[CHOOSE k \in DOMAIN namedTokens : token \in namedTokens[k][1]][2])
        ELSE IF \E k \in DOMAIN vulgarTokens : token = <<vulgarTokens[k][1]>>
        THEN LET row == vulgarTokens[CHOOSE k \in DOMAIN vulgarTokens : token = <<vulgarTokens[k][1]>>]
             IN  yield(Number(row[2], row[3], 0))
        ELSE IF \E k \in DOMAIN negativeVulgarTokens : token = <<"-", negativeVulgarTokens[k][1]>>
        THEN LET row == negativeVulgarTokens[CHOOSE k \in DOMAIN negativeVulgarTokens :
                                                token = <<"-", negativeVulgarTokens[k][1]>>]
             IN  yield(Number(row[2], row[3], 0))
        ELSE IF EndsWith(token, <<"d", "e", "g">>) \/ EndsWith(token, <<"<deg>">>)
        THEN yield(Radians(parseFloat(token)))
        ELSE IF EndsWith(token, <<"%">>)
        THEN yield(Hundredth(parseFloat(token)))
        ELSE yield(parseFloat(token))

\* decimal literals, each with the number n/d it denotes
Numerals ==
    {[text |-> <<"3", "0">>, n |-> 30, d |-> 1],
     [text |-> <<"4", "5">>, n |-> 45, d |-> 1],
     [text |-> <<"5", "0">>, n |-> 50, d |-> 1],
     [text |-> <<"7", "5">>, n |-> 75, d |-> 1],
     [text |-> <<"-", "9", "0">>, n |-> 0 - 90, d |-> 1],
     [text |-> <<"+", "5">>, n |-> 5, d |-> 1],
     [text |-> <<"1", "2", ".", "5", "0">>, n |-> 25, d |-> 2],
     [text |-> <<"0", ".", "5">>, n |-> 1, d |-> 2],
     [text |-> <<".", "2", "5">>, n |-> 1, d |-> 4],
     [text |-> <<"1", "8", "0">>, n |-> 180, d |-> 1]}

NumberSuffixes == {<<>>, <<"d", "e", "g">>, <<"<deg>">>, <<"%">>, <<"D", "E", "G">>}

\* every token of the switch, the numerals with every suffix, and some
\* tokens in capitals or of no meaning
ParseInputs ==
    {[fn |-> "parse", source |-> s] :
        s \in UNION {namedTokens[k][1] : k \in DOMAIN namedTokens}
              \cup {<<vulgarTokens[k][1]>> : k \in DOMAIN vulgarTokens}
              \cup {<<"-", negativeVulgarTokens[k][1]>> : k \in DOMAIN negativeVulgarTokens}
              \cup {num.text \o suffix : num \in Numerals, suffix \in NumberSuffixes}
              \cup {<<"P", "I">>, <<"T", "R", "U", "E">>, <<"N", "I", "L">>,
                    <<"a", "b", "c">>, <<"d", "e", "g">>, <<"%">>}}

Parse ==
    /\ args.fn = "parse"
    /\ result.pc = "idle"
    /\ result' = parse(args.source)
    /\ UNCHANGED <<loaderVars, gameJSON, resolving, args>>

\* ------------------------------------------------- the scan of $parse
\* Indices are those of the source: the first character is at index 0.
\* "<ellipsis>" is the one character of the elision token.

\* source[i], which is undefined outside the string
At(source, i) == IF i >= 0 /\ i < Len(source) THEN source[i + 1] ELSE "<undefined>"

\* while (chars.indexOf(source[i]) !== -1) { ++i; }
RECURSIVE skip(_, _, _)
skip(source, chars, i) == IF At(source, i) \in chars THEN skip(source, chars, i + 1) ELSE i

\* regexIndexOf(text, re, i) for a regular expression that is one class of
\* characters
RECURSIVE regexIndexOf(_, _, _)
regexIndexOf(text, re, i) ==
    IF i >= Len(text) THEN Len(text)
    ELSE IF At(text, i) \in re THEN i
    ELSE regexIndexOf(text, re, i + 1)

\* while (i < source.length && (source[i] !== '"' || source[i - 1] === '\\')) { ++i; }
RECURSIVE closeQuote(_, _)
closeQuote(source, i) ==
    IF i < Len(source) /\ (At(source, i) # "\"" \/ At(source, i - 1) = "\\")
    THEN closeQuote(source, i + 1)
    ELSE i

\* while (i < source.length && source[i] !== close) { ++i; }
untilClose(source, close, i) == regexIndexOf(source, {close}, i)

\* $parse(source, i), with the loop of the array literal and the loop of
\* the object literal. Of the result only what the scan depends on is
\* kept: whether it is the elision string, and next. The source is never
\* written and the condition of each loop reads i alone, so an iteration
\* that ends at the index it began at is repeated without end: "looping".
RECURSIVE parseFrom(_, _)
RECURSIVE arrayLoop(_, _)
RECURSIVE objectLoop(_, _)
parseFrom(source, start) ==
    LET i == skip(source, {" ", "\t", "\n"}, start)
    IN  IF i >= Len(source) THEN [pc |-> "thrown", error |-> "hit the end of source"]
        ELSE IF At(source, i) = "\""
        THEN LET end == closeQuote(source, i + 1)
             IN  [pc |-> "returned", next |-> end + 1,
                  elision |-> SubSeq(source, i + 2, end) = <<"<ellipsis>">>]
        ELSE IF At(source, i) = "[" THEN arrayLoop(source, skip(source, {" ", "\t", "\n"}, i + 1))
        ELSE IF At(source, i) = "{" THEN objectLoop(source, skip(source, {" ", "\t", "\n"}, i + 1))
        ELSE [pc |-> "returned",
              next |-> regexIndexOf(source, {",", ":", "[", "{", "}", "]", " ", "\n", "\t", "\""}, i),
              elision |-> FALSE]

arrayLoop(source, i) ==
    IF ~(i < Len(source) /\ At(source, i) # "]")
    THEN [pc |-> "returned", next |-> i + 1, elision |-> FALSE]
    ELSE LET child == parseFrom(source, i)
         IN  IF child.pc # "returned" THEN child
             ELSE IF child.elision
             THEN [pc |-> "returned", next |-> untilClose(source, "]", i) + 1, elision |-> FALSE]
             ELSE LET next == skip(source, {",", " ", "\t", "\n"}, child.next)
                  IN  IF next = i THEN [pc |-> "looping", loop |-> "array", at |-> i]
                      ELSE arrayLoop(source, next)

objectLoop(source, i) ==
    IF ~(i < Len(source) /\ At(source, i) # "}")
    THEN [pc |-> "returned", next |-> i + 1, elision |-> FALSE]
    ELSE LET quoted == At(source, i) = "\""
             temp == parseFrom(source, i)
             end == regexIndexOf(source, {":", " ", "\n", "\t", "\""}, i)
             elided == IF quoted THEN temp.elision ELSE SubSeq(source, i + 1, end) = <<"<ellipsis>">>
             afterKey == IF quoted THEN temp.next ELSE end
             value == parseFrom(source, skip(source, {":", " ", "\t", "\n"}, afterKey))
         IN  IF elided
             THEN [pc |-> "returned", next |-> untilClose(source, "}", afterKey) + 1, elision |-> FALSE]
             ELSE IF value.pc # "returned" THEN value
             ELSE LET next == skip(source, {",", " ", "\t", "\n"}, value.next)
                  IN  IF next = i THEN [pc |-> "looping", loop |-> "object", at |-> i]
                      ELSE objectLoop(source, next)

\* the characters a source is made of
ScanAlphabet == {"[", "]", "{", "}", ":", ",", " ", "\"", "a", "<ellipsis>"}

\* every source of at most MaxSource characters, from every index of it
ScanInputs ==
    {in \in {[fn |-> "parseFrom", source |-> s, i |-> i] :
                s \in UNION {[1..n -> ScanAlphabet] : n \in 0..MaxSource},
                i \in 0..MaxSource} :
        in.i <= Len(in.source)}

ParseFrom ==
    /\ args.fn = "parseFrom"
    /\ result.pc = "idle"
    /\ result' = parseFrom(args.source, args.i)
    /\ UNCHANGED <<loaderVars, gameJSON, resolving, args>>

\* ------------------------------------------------- tabular data
\* Characters outside ASCII: "<yen>", "<euro>", "<pound>", "<section>".
IsSeparator(c) == c \in {",", "\n"}

RECURSIVE PlainRun(_)
PlainRun(s) == IF s # <<>> /\ ~IsSeparator(s[1]) THEN 1 + PlainRun(Tail(s)) ELSE 0

\* The loop over objPattern.exec(strData), for data without quotes and
\* carriage returns: a match starts at lastIndex with a comma, a newline, or
\* at the start of the data, and takes the characters up to the next
\* separator as the cell.
RECURSIVE exec(_, _, _)
exec(strData, lastIndex, data) ==
    IF lastIndex >= Len(strData) THEN data
    ELSE LET first == strData[lastIndex + 1]
             start == IF IsSeparator(first) THEN lastIndex + 1 ELSE lastIndex
             cell == SubSeq(strData, start + 1, start + PlainRun(Drop(strData, start)))
             rows == IF first = "\n" THEN Append(data, <<>>) ELSE data
         IN  exec(strData, start + Len(cell),
                  [rows EXCEPT ![Len(rows)] = Append(@, String(cell))])

IsNumberChar(c) == IsDigit(c) \/ c \in {"+", "-", ".", "e"}

\* [+\-0-9\.e]+
IsNumberChars(s) == s # <<>> /\ \A i \in 1..Len(s) : IsNumberChar(s[i])

specialCells ==
    << <<{<<"i", "n", "f", "i", "n", "i", "t", "y">>,
          <<"+", "i", "n", "f", "i", "n", "i", "t", "y">>}, Signed("Infinity", 1)>>,
       <<{<<"-", "i", "n", "f", "i", "n", "i", "t", "y">>}, Signed("Infinity", 0 - 1)>>,
       <<{<<"n", "i", "l">>, <<"n", "u", "l", "l">>}, Special("undefined")>>,
       <<{<<"N", "a", "N">>, <<"n", "a", "n">>}, NaN>>,
       <<{<<"T", "R", "U", "E">>, <<"t", "r", "u", "e">>}, Special("true")>>,
       <<{<<"F", "A", "L", "S", "E">>, <<"f", "a", "l", "s", "e">>}, Special("false")>>  >>

\* the three tests of the default case of the switch on a cell
isCurrency(val) ==
    /\ Len(val) >= 2
    /\ val[1] \in {"$", "<yen>", "<euro>", "<pound>", "<section>"}
    /\ IsNumberChars(Tail(val))

isPercent(val) == EndsWith(val, <<"%">>) /\ IsNumberChars(SubSeq(val, 1, Len(val) - 1))

isDegrees(val) ==
    /\ EndsWith(val, <<"d", "e", "g">>)
    /\ LET before == SubSeq(val, 1, Len(val) - 3)
       IN  \/ IsNumberChars(before)
           \/ Len(before) >= 2 /\ before[Len(before)] = " "
                 /\ IsNumberChars(SubSeq(before, 1, Len(before) - 1))

\* the value the loop over the columns leaves in place of the cell val
coerce(val, trimmed) ==
    LET v == parseFloat(val)
        stripped == IF trimmed THEN trim(val) ELSE val
    IN  IF v.kind # "NaN" THEN v
        ELSE IF val = <<>> THEN String(val)
        ELSE IF \E k \in DOMAIN specialCells : stripped \in specialCells[k][1]
        THEN specialCells[CHOOSE k \in DOMAIN specialCells : stripped \in specialCells[k][1]][2]
        ELSE IF isCurrency(stripped) THEN parseFloat(Tail(stripped))
        ELSE IF isPercent(stripped)
        THEN Hundredth(parseFloat(SubSeq(stripped, 1, Len(stripped) - 1)))
        ELSE IF isDegrees(stripped)
        THEN Radians(parseFloat(trim(SubSeq(stripped, 1, Len(stripped) - 3))))
        ELSE String(stripped)

\* the row left at its own length
padNothing(array, max) == array

\* array.length = max; array.fill(old, max, ''): fill's arguments are the
\* value, the start and the end, and the end '' is 0, so nothing is filled
\* and the added slots stay empty
pad(array, max) == array \o [i \in 1..(max - Len(array)) |-> Special("empty")]

\* parseCSV(strData, trim); on the empty string every exec matches the empty
\* cell at index 0 again and the first loop does not end
parseCSV(strData, trimmed) ==
    IF strData = <<>> THEN [pc |-> "looping"]
    ELSE LET data == exec(strData, 0, <<<<>>>>)
             longest == CHOOSE r \in DOMAIN data : \A q \in DOMAIN data : Len(data[q]) <= Len(data[r])
             max == Len(data[longest])
         IN  [pc |-> "returned",
              data |-> [r \in DOMAIN data |->
                           pad([c \in DOMAIN data[r] |-> coerce(data[r][c].text, trimmed)], max)]]

CellPrefixes == {<<>>, <<"$">>, <<"<euro>">>, <<" ">>, <<" ", "$">>}

CellSuffixes == {<<>>, <<"%">>, <<"d", "e", "g">>, <<" ", "d", "e", "g">>, <<"%", " ">>}

\* the cells of a row with commas between them, and rows with newlines
\* between them
RECURSIVE JoinCells(_)
JoinCells(row) ==
    IF Len(row) = 1 THEN row[1]
    ELSE JoinCells(SubSeq(row, 1, Len(row) - 1)) \o <<",">> \o row[Len(row)]

RECURSIVE JoinRows(_)
JoinRows(rows) ==
    IF Len(rows) = 1 THEN JoinCells(rows[1])
    ELSE JoinRows(SubSeq(rows, 1, Len(rows) - 1)) \o <<"\n">> \o JoinCells(rows[Len(rows)])

\* tables of up to MaxRows rows of up to MaxCells cells, each empty or "5"
CSVRows == UNION {[1..n -> {<<>>, <<"5">>}] : n \in 1..MaxCells}

CSVTables == {JoinRows(rows) : rows \in UNION {[1..n -> CSVRows] : n \in 1..MaxRows}}

\* one cell made of a numeral with a prefix and a suffix, the special
\* words, cells of no meaning, tables of several cells, and no data
CSVInputs ==
    {[fn |-> "parseCSV", strData |-> s, trim |-> t] :
        s \in {prefix \o num.text \o suffix :
                  prefix \in CellPrefixes, num \in Numerals, suffix \in CellSuffixes}
              \cup UNION {specialCells[k][1] : k \in DOMAIN specialCells}
              \cup {<<" ", "t", "r", "u", "e", " ">>, <<"a", "b", "c">>, <<"e", "5", "%">>,
                    <<"$">>, <<"%">>, <<"d", "e", "g">>,
                    <<"a", ",", "7", "5", "%", "\n", "c">>,
                    <<",", "a">>, <<"\n", "a">>, <<"a", ",", ",", "b">>, <<>>}
              \cup CSVTables,
        t \in BOOLEAN}

ParseCSV ==
    /\ args.fn = "parseCSV"
    /\ result.pc = "idle"
    /\ result' = parseCSV(args.strData, args.trim)
    /\ UNCHANGED <<loaderVars, gameJSON, resolving, args>>

\* ------------------------------------------------- tile layers
\* A cell value of a tile layer is a number of 32 bits; gid.high is its four
\* highest bits (31 to 28) and gid.low its 28 lowest, so that the three masks
\* of the loop read
\*    gid & 0x80000000  bit 8 of high,
\*    gid & 0x40000000  bit 4 of high,
\*    gid & 0x0fffffff  low.
Gid(high, low) == [high |-> high, low |-> low]

\* the sheet of cols x rows sprites of one pixel the map draws its tiles from
TileSheet(cols, rows) == compileGrid(SheetInput(cols, rows, 1, 1, 0, FALSE, <<>>), 0).spritesheet

EmptyCell == [empty |-> TRUE, x |-> 0, y |-> 0, version |-> "none"]

\* The body of the loops over y and x of loadTMXCallback: what is stored in
\* the cell of the layer for the value gid. map.spritesheet[sx] of a column
\* the sheet does not have is undefined, and reading [sy] of it raises a
\* TypeError; map.spritesheet[sx][sy] of a row the column does not have is
\* undefined, which is stored as it is, and flipping it raises a TypeError.
loadTile(gid, columns, sheet) ==
    LET tileFlipX == (gid.high \div 8) % 2 = 1
        tileFlipY == (gid.high \div 4) % 2 = 1
        tmxIndex == gid.low - 1
        sx == tmxIndex % columns
        sy == tmxIndex \div columns
        flippedX == IF tileFlipX THEN sheet[sx][sy].versions["sprite"].x_flipped ELSE "sprite"
        flippedY == IF tileFlipY THEN sheet[sx][sy].versions[flippedX].y_flipped ELSE flippedX
    IN  IF tmxIndex >= 0
        THEN IF sx \notin DOMAIN sheet THEN [pc |-> "thrown"]
             ELSE IF sy \notin DOMAIN sheet[sx]
             THEN IF tileFlipX \/ tileFlipY THEN [pc |-> "thrown"]
                  ELSE [pc |-> "returned", cell |-> EmptyCell]
             ELSE [pc |-> "returned",
                   cell |-> [empty |-> FALSE, x |-> sx, y |-> sy, version |-> flippedY]]
        ELSE [pc |-> "returned", cell |-> EmptyCell]

\* every setting of the four high bits with every index up to MaxTile, on
\* sheets of up to MaxTileSide columns and rows
TileInputs ==
    {[fn |-> "tile", gid |-> Gid(high, low), columns |-> columns, cols |-> cols, rows |-> rows] :
        high \in 0..15, low \in 0..MaxTile,
        columns \in 1..MaxTileSide, cols \in 1..MaxTileSide, rows \in 1..MaxTileSide}

LoadTile ==
    /\ args.fn = "tile"
    /\ result.pc = "idle"
    /\ result' = loadTile(args.gid, args.columns, TileSheet(args.cols, args.rows))
    /\ UNCHANGED <<loaderVars, gameJSON, resolving, args>>

\* ------------------------------------------------- pixel data
\* An element of the Uint32Array over the image's RGBA bytes, 0xAABBGGRR:
\* hi is its 16 highest bits (0xAABB) and lo its 16 lowest (0xGGRR).
Pixel(hi, lo) == [hi |-> hi, lo |-> lo]

\* ToInt32 of the element, as the operand of >> is converted
ToInt32(pixel) ==
    IF pixel.hi >= 32768
    THEN (pixel.hi - 65536) * 65536 + pixel.lo
    ELSE pixel.hi * 65536 + pixel.lo

\* (c & mask) >> shift for a mask of four bits the lowest of which is bit
\* low: c is a signed number of 32 bits, in two's complement
Nibble(c, low, shift) == ((c \div (2 ^ low)) % 16) * (2 ^ (low - shift))

\* the body of the loop without the shift by four bits
quantizeLowNibbles(pixel) ==
    LET c == ToInt32(pixel)
    IN  (Nibble(c, 24, 12) + Nibble(c, 16, 8) + Nibble(c, 8, 4) + Nibble(c, 0, 0)) % 65536

\* The body of the loop that quantizes: c = data[i] >> 4 and
\* result[i] = ((c & 0xf000000) >> 12) | ((c & 0xf0000) >> 8)
\*               | ((c & 0xf00) >> 4) | c & 0xf, stored in a Uint16Array.
\* The four fields share no bit, so | adds them.
quantize(pixel) ==
    LET c == ToInt32(pixel) \div 16
    IN  (Nibble(c, 24, 12) + Nibble(c, 16, 8) + Nibble(c, 8, 4) + Nibble(c, 0, 0)) % 65536

\* a region that getImageData4Bit is passed, or none (undefined)
NoRegion == [defined |-> FALSE, corner |-> [x |-> 0, y |-> 0], size |-> [x |-> 0, y |-> 0]]

Region(cx, cy, sx, sy) ==
    [defined |-> TRUE, corner |-> [x |-> cx, y |-> cy], size |-> [x |-> sx, y |-> sy]]

\* the "Crop" branch: row y of data is the slice of dataRaw that starts at
\* (y + region.corner.y) * dataRaw.width + region.corner.x
crop(image, region) ==
    IF /\ region.defined
       /\ \/ region.corner.x # 0 \/ region.corner.y # 0
          \/ region.size.x # image.width \/ region.size.y # image.height
    THEN [width |-> region.size.x, height |-> region.size.y,
          data |-> [i \in 1..(region.size.x * region.size.y) |->
                       LET y == (i - 1) \div region.size.x
                           x == (i - 1) % region.size.x
                           srcOffset == (y + region.corner.y) * image.width + region.corner.x
                       IN  image.data[srcOffset + x + 1]]]
    ELSE image

\* getImageData4Bit(image, region, full32bitoutput)
getImageData4Bit(image, region, full32bitoutput) ==
    LET data == crop(image, region)
    IN  IF full32bitoutput
        THEN [pc |-> "returned", bits |-> 32, width |-> data.width,
              height |-> data.height, data |-> data.data]
        ELSE [pc |-> "returned", bits |-> 16, width |-> data.width,
              height |-> data.height,
              data |-> [i \in DOMAIN data.data |-> Pixel(0, quantize(data.data[i]))]]

\* the bytes a channel takes in the images of the model
Bytes == {0, 15, 16, 127, 128, 165, 240, 255}

\* calls of getImageData4Bit
ImageCalls ==
    {[fn |-> "quantize", image |-> [width |-> 1, height |-> 1,
                                     data |-> <<Pixel(a * 256 + b, g * 256 + r)>>],
      region |-> NoRegion, full32bitoutput |-> FALSE] :
        a \in Bytes, b \in Bytes, g \in Bytes, r \in Bytes}
    \cup
    {[fn |-> "quantize",
      image |-> [width |-> w, height |-> h,
                 data |-> [i \in 1..(w * h) |-> Pixel(61440 + 16 * i, 4096 * i + 255)]],
      region |-> region, full32bitoutput |-> full] :
        w \in 1..MaxImageSide, h \in 1..MaxImageSide, full \in BOOLEAN,
        region \in {NoRegion} \cup
            {Region(cx, cy, sx, sy) :
                cx \in 0..MaxImageSide, cy \in 0..MaxImageSide,
                sx \in 0..MaxImageSide, sy \in 0..MaxImageSide}}

\* the images of one pixel with every channel in Bytes, and the images up
\* to MaxImageSide whose pixels are numbered, with every region inside them
\* (the preprocessor of loadSpritesheet clamps the region to the image)
ImageInputs ==
    {in \in ImageCalls :
        /\ in.region.corner.x + in.region.size.x <= in.image.width
        /\ in.region.corner.y + in.region.size.y <= in.image.height}

GetImageData4Bit ==
    /\ args.fn = "quantize"
    /\ result.pc = "idle"
    /\ result' = getImageData4Bit(args.image, args.region, args.full32bitoutput)
    /\ UNCHANGED <<loaderVars, gameJSON, resolving, args>>

\* ------------------------------------------------- the crop region
\* A property of json.region that holds an object {x, y}, or is undefined.
Vec(x, y) == [defined |-> TRUE, x |-> x, y |-> y]

Undefined == [defined |-> FALSE, x |-> 0, y |-> 0]

\* "Clone the region" and the preprocessor's "Update the region now that we
\* know the image size".  json is json.region (all undefined when the
\* document has none).  Object.assign({}, json.region) copies the
\* properties pos, corner and size, so region.corner and region.size are
\* the objects of the document unless one was missing and made afresh;
\* an assignment to region.corner.x writes the object region.corner is.
\* Returns the document's region after the call and the region passed on.
preprocessRegion(json, image) ==
    LET cornerIs == IF json.pos.defined THEN "pos"
                    ELSE IF json.corner.defined THEN "corner"
                    ELSE "fresh"
        corner0 == CASE cornerIs = "pos" -> json.pos
                     [] cornerIs = "corner" -> json.corner
                     [] OTHER -> Vec(0, 0)
        corner == Vec(Min(Max(0, corner0.x), image.width),
                      Min(Max(0, corner0.y), image.height))
        size == IF json.size.defined
                THEN Vec(Min(image.width - corner.x, json.size.x),
                         Min(image.height - corner.y, json.size.y))
                ELSE Vec(image.width - corner.x, image.height - corner.y)
    IN  [pc |-> "returned",
         json |-> [pos |-> IF cornerIs = "pos" THEN corner ELSE json.pos,
                   corner |-> IF cornerIs = "corner" THEN corner ELSE json.corner,
                   size |-> IF json.size.defined THEN size ELSE json.size],
         region |-> [corner |-> corner, size |-> size]]

\* images up to MaxImageSide with every region whose corner and size are
\* from one pixel outside the image to one pixel beyond it
RegionInputs ==
    {[fn |-> "region", image |-> [width |-> w, height |-> h],
      json |-> [pos |-> pos, corner |-> corner, size |-> size]] :
        w \in 1..MaxImageSide, h \in 1..MaxImageSide,
        pos \in {Undefined, Vec(1, 0)},
        corner \in {Undefined} \cup
            {Vec(x, y) : x \in (0 - 1)..(MaxImageSide + 1), y \in (0 - 1)..(MaxImageSide + 1)},
        size \in {Undefined} \cup
            {Vec(x, y) : x \in 0..(MaxImageSide + 1), y \in 0..(MaxImageSide + 1)}}

PreprocessRegion ==
    /\ args.fn = "region"
    /\ result.pc = "idle"
    /\ result' = preprocessRegion(args.json, args.image)
    /\ UNCHANGED <<loaderVars, gameJSON, resolving, args>>

\* ------------------------------------------------- calls of pure functions
\* One call of a function of the loader that reads only its arguments: args
\* is the call, result what it returned or that it threw.
CallInputs ==
    SheetInputs \cup FrameInputs \cup ParseInputs \cup CSVInputs \cup TileInputs
       \cup ImageInputs \cup RegionInputs \cup ScanInputs

InitCalls ==
    /\ useIDE = FALSE
    /\ fastReload = FALSE
    /\ manifest = <<SheetA>>
    /\ loadManager = 0
    /\ lm = <<>>
    /\ assetCache = [u \in AssetURLs |-> NoObj]
    /\ heap = <<>>
    /\ spritesheetArray = <<>>
    /\ fontArray = <<>>
    /\ gameSource = NewGameSource
    /\ inflight = {}
    /\ obs = <<>>
    /\ constructed = [u \in AssetURLs |-> 0]
    /\ returned = [u \in AssetURLs |-> {}]
    /\ lastHit = NoObj
    /\ gameJSON = [constants |-> <<>>, assets |-> {}]
    /\ resolving = [pc |-> "idle"]
    /\ args \in CallInputs
    /\ result = [pc |-> "idle"]

NextCalls ==
    \/ CompileSpritesheet
    \/ AnimationFrame
    \/ Parse
    \/ ParseCSV
    \/ LoadTile
    \/ GetImageData4Bit
    \/ PreprocessRegion
    \/ ParseFrom

SpecCalls == InitCalls /\ [][NextCalls]_vars

\* ---------------------------------------------------------------- claims
Sessions == 1..Len(lm)

Objects == 1..Len(heap)

\* the continuations of session s that have not run, in the current state
Waiting(s) == {t \in inflight : t.sess = s}

Fired(s) == obs[s].log # <<>>

CallbackRuns(s) == Cardinality({i \in 1..Len(obs[s].log) : obs[s].log[i] = "callback"})

\* C1: in one load session the completion callback fires exactly once, and
\* only after loadManager.end() was called and every registered request,
\* nested ones included, has completed or failed tolerably.
C1_CompletionExactlyOnce ==
    \A s \in Sessions :
        /\ CallbackRuns(s) <= 1
        /\ Fired(s) => /\ obs[s].ended
                       /\ obs[s].workAtDrain = 0
                       /\ Waiting(s) = {}
                       /\ ~obs[s].error
        /\ (obs[s].ended /\ Waiting(s) = {} /\ ~obs[s].error) => CallbackRuns(s) = 1

\* a session has drained after requests were registered from inside the
\* continuations of other requests (asset metadata, map spritesheet, tiles)
C1_Witness ==
    \E s \in Sessions :
        /\ CallbackRuns(s) = 1
        /\ \E o \in Objects : heap[o].type = "map" /\ heap[o].layers
        /\ \E o \in Objects : heap[o].type = "sound" /\ heap[o].loaded

\* work that is registered from inside a success continuation
NestedKinds == {"text", "assetjson", "fontpng", "sheetpng", "mp3", "decode",
                "sheetjson", "poll", "tmx"}

NestedWork(s) == {t \in Waiting(s) : t.kind \in NestedKinds}

\* C2: work registered from inside a success continuation (a nested fetch,
\* the audio decode of loadSound, the cache-hit wait of loadSpritesheet) is
\* counted in pendingRequests for as long as it is outstanding, and the
\* completion callback has not fired while any of it is outstanding.
C2_NestedWorkCounted ==
    \A s \in Sessions :
        /\ lm[s].pendingRequests >= Cardinality(NestedWork(s))
        /\ NestedWork(s) # {} => ~Fired(s) /\ lm[s].status # "complete"

\* an audio decode and a cache-hit wait are outstanding while the requests
\* that started them have been counted as complete
C2_Witness ==
    \E s \in Sessions :
        /\ \E t \in Waiting(s) : t.kind \in {"decode", "poll"}
        /\ \A t \in Waiting(s) : t.kind \in {"decode", "poll", "sheetpng"}
        /\ lm[s].status = "loading"

Maps == {o \in Objects : heap[o].type = "map"}

Polls == {t \in inflight : t.kind = "poll"}

\* map m received its spritesheet from the cache-hit branch of
\* loadSpritesheet: the sheet was constructed for another consumer
FromCache(m) ==
    /\ heap[m].spritesheet # NoObj
    /\ \/ heap[heap[m].spritesheet].name # Name(heap[m].name.asset, ".spritesheet")
       \/ heap[heap[m].spritesheet].by # heap[m].by

\* C3: loadSpritesheet invokes the callback of a cache hit only on a frozen
\* spritesheet; while the sheet is not frozen the callback has not been
\* invoked (the map has no spritesheet yet) and the check stays scheduled.
C3_CallbackOnlyWhenFrozen ==
    /\ [](\A m \in Maps :
             heap[m].spritesheet # NoObj => heap[heap[m].spritesheet].frozen)
    /\ [](\A t \in Polls : heap[t.cb].spritesheet = NoObj)
    /\ [][\A t \in Polls :
             ~heap'[t.obj].frozen =>
                 t \in inflight' /\ heap'[t.cb].spritesheet = NoObj]_vars

\* a map was handed a spritesheet found in the cache
C3_Witness ==
    \E m \in Maps : FromCache(m) /\ heap[heap[m].spritesheet].frozen

\* C4: since the last afterLoadGame at most one object was constructed per
\* metadata URL and every load* call for a URL returned the same object, so
\* declarations that share a URL hold the same object.
C4_OneObjectPerURL ==
    /\ \A u \in AssetURLs : constructed[u] <= 1 /\ Cardinality(returned[u]) <= 1
    /\ gameSource.assetsDefined =>
           \A n1, n2 \in DOMAIN manifest :
               /\ manifest[n1] = manifest[n2]
               /\ gameSource.assets[n1] # NoObj
               /\ gameSource.assets[n2] # NoObj
               => gameSource.assets[n1] = gameSource.assets[n2]

\* two declarations of one URL, or a declaration and a map's reference to
\* it, were both served
C4_Witness ==
    \/ \E n1, n2 \in DOMAIN manifest :
           n1 # n2 /\ gameSource.assets[n1] # NoObj
                   /\ gameSource.assets[n1] = gameSource.assets[n2]
    \/ \E n \in DOMAIN manifest, m \in Maps :
           gameSource.assets[n] # NoObj /\ heap[m].spritesheet = gameSource.assets[n]

DeclaredMaps == {n \in DOMAIN manifest : AssetType(manifest[n]) = "map"}

C6_StaleContinuationsAreNoOps ==
    [][(/\ loadManager' = loadManager
        /\ \E t \in inflight \ inflight' : t.sess < loadManager)
       => /\ lm'[loadManager] = lm[loadManager]
          /\ assetCache' = assetCache
          /\ gameSource' = gameSource]_vars

\* every field of an asset object but its display-order index
Fields(o) == [o EXCEPT !.index = 0]

\* C7: a step that finds an asset in the cache changes no field of that
\* asset other than its display-order index.
C7_HitKeepsAsset ==
    [][lastHit' # NoObj =>
          /\ lastHit' \in Objects
          /\ Fields(heap'[lastHit']) = Fields(heap[lastHit'])]_vars

\* a frozen spritesheet was found in the cache and given a new index
C7_Witness ==
    /\ lastHit # NoObj
    /\ heap[lastHit].frozen
    /\ heap[lastHit].type = "spritesheet"
    /\ heap[lastHit].by # loadManager

C9_FailureFatalUnlessTolerated ==
    \A s \in Sessions :
        /\ obs[s].fetchFailed => lm[s].status = "failure" /\ obs[s].error /\ ~Fired(s)
        /\ (obs[s].debugFailed /\ ~obs[s].fetchFailed /\ ~obs[s].threw
                /\ ~obs[s].decodeFailed)
           => /\ lm[s].status # "failure"
              /\ ~obs[s].error
              /\ Waiting(s) = {} => CallbackRuns(s) = 1

\* the debug fetch failed and the session drained with its assets loaded
C9_Witness ==
    \E s \in Sessions :
        /\ obs[s].debugFailed
        /\ CallbackRuns(s) = 1
        /\ \E n \in DOMAIN manifest : gameSource.assets[n] # NoObj

CompletionOrder == <<"computeAssetCredits", "computeResourceStats", "callback">>

\* C10: computeAssetCredits and computeResourceStats run only after every
\* registered request of the session has completed, both run before the
\* caller's callback, and neither runs in a session that fails.
C10_ReportsAfterDrain ==
    \A s \in Sessions :
        /\ Len(obs[s].log) <= 3
        /\ \A i \in 1..Len(obs[s].log) : obs[s].log[i] = CompletionOrder[i]
        /\ Fired(s) => obs[s].workAtDrain = 0 /\ Waiting(s) = {}
        /\ CallbackRuns(s) = 1 => Len(obs[s].log) = 3 /\ gameSource.CREDITS
        /\ (obs[s].error \/ lm[s].status = "failure") => ~Fired(s)

\* both reports ran, then the caller's callback, in a session that loaded
\* an asset through a nested request
C10_Witness ==
    \E s \in Sessions :
        /\ obs[s].log = CompletionOrder
        /\ \E o \in Objects : heap[o].loaded

\* C13: when the tile document's tile size or image size differs from the
\* spritesheet's, loadTMXCallback raises before any layer of that map is
\* built, the session fails, and its completion callback does not fire.
C13_SizeMismatchIsFatal ==
    \A s \in Sessions :
        \A m \in obs[s].mismatch :
            /\ ~heap[m].layers
            /\ obs[s].threw
            /\ obs[s].error
            /\ lm[s].status = "failure"
            /\ ~Fired(s)

\* a tile document with a wrong size arrived after every other request of
\* the session had completed
C13_Witness ==
    \E s \in Sessions :
        /\ obs[s].mismatch # {}
        /\ Waiting(s) = {}
        /\ \E m \in obs[s].mismatch : heap[heap[m].spritesheet].frozen

\* C14: the manifest is accepted only when exactly one mode name equals
\* start_mode: when none or more than one does, the game.json continuation
\* raises and the load fails.
C14_ExactlyOneStartMode ==
    \A s \in Sessions :
        obs[s].numStartModes \notin {-1, 1} =>
            obs[s].threw /\ lm[s].status = "failure"

ConstantKinds == {"constjson", "constyml", "consttable"}

\* the value the continuation of an external constant stores
FetchedValue(type) ==
    CASE type = "rawjson" -> "json"
      [] type = "rawyml" -> "yaml"
      [] type = "table" -> "table"

\* the constants declared with a url, by position in sorted key order
ExternalConstants ==
    {c \in DOMAIN gameSource.extendedJSON :
        gameSource.extendedJSON[c] \in {"rawjson", "rawyml", "table"}}

\* C15: when the completion callback fires every constant declared with a url
\* holds its fetched and parsed value in gameSource.constants, and the
\* callback has not fired while the fetch of such a constant is outstanding.
C15_ExternalConstantsLoaded ==
    \A s \in Sessions :
        /\ Fired(s) =>
               \A c \in ExternalConstants :
                   /\ c \in DOMAIN gameSource.constants
                   /\ gameSource.constants[c] = FetchedValue(gameSource.extendedJSON[c])
        /\ (\E t \in Waiting(s) : t.kind \in ConstantKinds) => ~Fired(s)

\* a session with two external constants of different kinds has completed
C15_Witness ==
    \E s \in Sessions :
        /\ CallbackRuns(s) = 1
        /\ Cardinality(ExternalConstants) = 2
        /\ \E c \in ExternalConstants : gameSource.constants[c] = "table"
        /\ \E c \in ExternalConstants : gameSource.constants[c] = "yaml"

\* the chain built so far names an identifier twice
Revisits(path) ==
    \E j, k \in 1..Len(path) : j < k /\ path[j] = path[k]

\* C11: whenever the alias chain that starts at a constant revisits an
\* identifier already on the chain, whether or not it is the starting
\* constant, the loop has stopped with a cycle error.
C11_AnyCycleIsAnError ==
    (resolving.pc # "idle" /\ Revisits(resolving.path)) =>
        /\ resolving.pc = "thrown"
        /\ resolving.error = <<"Cycle in reference chain: ", resolving.path>>

\* the chain follows the table from the constant being resolved
FollowsTable(path) ==
    \A k \in 1..(Len(path) - 1) : gameJSON.constants[path[k]].value = path[k + 1]

\* C12: when the alias chain returns to the constant it started from, the
\* loop raises a cycle error whose message lists the chain from that
\* constant back to itself in visiting order, and nothing is stored for it.
C12_CycleThroughStartIsReported ==
    LET path == resolving.path
        reported == /\ resolving.pc = "thrown"
                    /\ resolving.error = <<"Cycle in reference chain: ", path>>
                    /\ Len(path) > 1
                    /\ path[1] = resolving.c
                    /\ path[Len(path)] = resolving.c
                    /\ FollowsTable(path)
                    /\ resolving.c \notin DOMAIN resolving.constants
    IN  /\ (/\ resolving.pc # "idle"
            /\ Len(path) > 1
            /\ path[Len(path)] = path[1]) => reported
        /\ (/\ resolving.pc = "thrown"
            /\ resolving.error[1] = "Cycle in reference chain: ") => reported

\* A aliases B and B aliases A: the error names A, B, A
C12_Witness ==
    /\ resolving.pc = "thrown"
    /\ resolving.error = <<"Cycle in reference chain: ", <<"A", "B", "A">>>>


\* C16: a compiled spritesheet has floor((width+gutter)/(sprite_size.x+gutter))
\* columns and floor((height+gutter)/(sprite_size.y+gutter)) sprites per
\* column, swapped under transpose; every cell of the image grid has exactly
\* one sprite, and each sprite carries its three mirror variants; the 64 x 32
\* sheet of 16 x 16 sprites has 4 columns, 2 rows and 8 sprites.
C16_GridOfSprites ==
    (args.fn = "compile" /\ result.pc = "returned") =>
        LET sheet == result.spritesheet
            cols == Cardinality(DOMAIN sheet)
            stepX == args.sprite_size.x + args.gutter
            stepY == args.sprite_size.y + args.gutter
            across == IF args.transpose THEN Cardinality(DOMAIN sheet[0]) ELSE cols
            down == IF args.transpose THEN cols ELSE Cardinality(DOMAIN sheet[0])
            sprites == {<<x, y>> : x \in DOMAIN sheet, y \in DOMAIN sheet[0]}
        IN  /\ DOMAIN sheet = 0..(cols - 1)
            /\ \A x \in DOMAIN sheet : DOMAIN sheet[x] = DOMAIN sheet[0]
            /\ across * stepX <= args.width + args.gutter
            /\ args.width + args.gutter < (across + 1) * stepX
            /\ down * stepY <= args.height + args.gutter
            /\ args.height + args.gutter < (down + 1) * stepY
            /\ {sheet[p[1]][p[2]].tile_index : p \in sprites}
                  = {[x |-> u, y |-> v] : u \in 0..(across - 1), v \in 0..(down - 1)}
            /\ \A p \in sprites, q \in sprites :
                  sheet[p[1]][p[2]].tile_index = sheet[q[1]][q[2]].tile_index => p = q
            /\ \A p \in sprites :
                  LET sprite == sheet[p[1]][p[2]]
                  IN  /\ sprite.scale = "PP"
                      /\ sprite.x_flipped.scale = "NP"
                      /\ sprite.y_flipped.scale = "PN"
                      /\ sprite.xy_flipped.scale = "NN"
                      /\ sprite.x = sprite.tile_index.x * stepX
                      /\ sprite.y = sprite.tile_index.y * stepY
            /\ (args.width = 64 /\ args.height = 32 /\ args.sprite_size = [x |-> 16, y |-> 16]
                  /\ args.gutter = 0 /\ ~args.transpose)
                  => (cols = 4 /\ Cardinality(DOMAIN sheet[0]) = 2 /\ Cardinality(sprites) = 8)

C16_Witness ==
    /\ args.fn = "compile"
    /\ args.width = 64 /\ args.height = 32 /\ args.gutter = 0 /\ ~args.transpose
    /\ result.pc = "returned"
    /\ Cardinality(DOMAIN result.spritesheet) = 4


\* the sum of the durations of the sprites before sprite number i (from 1)
RECURSIVE Before(_, _)
Before(sprites, i) == IF i <= 1 THEN 0 ELSE Before(sprites, i - 1) + sprites[i - 1].frames

\* sprite s is the one whose interval of cumulative durations contains t
Shows(animation, s, t) ==
    \E i \in 1..Len(animation.sprites) :
        /\ animation.sprites[i] = s
        /\ Before(animation.sprites, i) <= t
        /\ t < Before(animation.sprites, i + 1)

Sampled == makeAnimation(args.extrapolate, args.frames)

WholeDurations == \A i \in 1..Len(args.frames) : args.frames[i] > 0 /\ args.frames[i] % Unit = 0

\* C17: for a loop animation whose durations are whole numbers of frames and
\* a whole counter f, frame(f) is the sprite of frame(f + period): the sprite
\* whose interval contains f modulo the period; frame(-1) is frame(period - 1)
\* and frame(period) is frame(0).
C17_LoopIsPeriodic ==
    (args.fn = "frame" /\ result.pc = "returned" /\ args.extrapolate = "loop"
        /\ WholeDurations /\ args.f % Unit = 0) =>
        LET period == Before(Sampled.sprites, Len(Sampled.sprites) + 1)
        IN  /\ Sampled.period = period
            /\ result = animationFrame(Sampled, args.f + period)
            /\ Shows(Sampled, result.sprite, args.f % period)
            /\ args.f = 0 - Unit => result = animationFrame(Sampled, period - Unit)
            /\ args.f = period => result = animationFrame(Sampled, 0)

C17_Witness ==
    /\ args.fn = "frame" /\ args.extrapolate = "loop"
    /\ args.frames = <<Unit, Unit, Unit>>
    /\ args.f = 0 - Unit
    /\ result.pc = "returned"
    /\ result.sprite.index = 2

\* C18 as stated: for a clamp animation, a counter below 0 gives the first
\* sprite, a counter at or above the total frame count the last, and a
\* counter in between the sprite whose interval contains the counter.
C18_ClampByCounter ==
    (args.fn = "frame" /\ result.pc = "returned" /\ args.extrapolate = "clamp") =>
        LET N == Len(Sampled.sprites)
            total == Before(Sampled.sprites, N + 1)
        IN  /\ args.f < 0 => result.sprite = Sampled.sprites[1]
            /\ args.f >= total => result.sprite = Sampled.sprites[N]
            /\ (0 <= args.f /\ args.f < total) => Shows(Sampled, result.sprite, args.f)

\* C18 (amended): for a clamp animation, a counter whose floor is below 0
\* gives the first sprite, one whose floor is at or above the total frame
\* count the last, and one in between the sprite whose interval contains the
\* floor of the counter.
C18_ClampByFlooredCounter ==
    (args.fn = "frame" /\ result.pc = "returned" /\ args.extrapolate = "clamp") =>
        LET N == Len(Sampled.sprites)
            total == Before(Sampled.sprites, N + 1)
            floored == Unit * (args.f \div Unit)
        IN  /\ Sampled.frames = total
            /\ floored < 0 => result.sprite = Sampled.sprites[1]
            /\ floored >= total => result.sprite = Sampled.sprites[N]
            /\ (0 <= floored /\ floored < total) => Shows(Sampled, result.sprite, floored)

C18_Witness ==
    /\ args.fn = "frame" /\ args.extrapolate = "clamp"
    /\ args.frames = <<2 * Unit, 3 * Unit>>
    /\ args.f = 100 * Unit
    /\ result.pc = "returned"
    /\ result.sprite.index = 1


\* the number each vulgar-fraction character denotes
VulgarFractions ==
    {<<"<1/4>", 1, 4>>, <<"<1/2>", 1, 2>>, <<"<3/4>", 3, 4>>, <<"<1/3>", 1, 3>>,
     <<"<2/3>", 2, 3>>, <<"<1/5>", 1, 5>>, <<"<2/5>", 2, 5>>, <<"<3/5>", 3, 5>>,
     <<"<4/5>", 4, 5>>, <<"<1/6>", 1, 6>>, <<"<5/6>", 5, 6>>, <<"<1/7>", 1, 7>>,
     <<"<1/8>", 1, 8>>, <<"<3/8>", 3, 8>>, <<"<5/8>", 5, 8>>, <<"<7/8>", 7, 8>>,
     <<"<1/9>", 1, 9>>, <<"<1/10>", 1, 10>>}

QuartersOfPi == {<<"<1/4>", 1, 4>>, <<"<1/2>", 1, 2>>, <<"<3/4>", 3, 4>>}

\* value v is the number n/d, times pi where pi = 1
Is(v, n, d, pi) == v.kind = "number" /\ v.pi = pi /\ v.n * d = n * v.d

\* C19: $parse maps each vulgar-fraction token to its fraction, negated after
\* a minus sign; each fraction-of-pi token to that fraction times pi (1/4 pi,
\* 1/2 pi, 3/4 pi and their negatives); a number n with a degree suffix to
\* n pi/180 and a number n with a percent suffix to n/100.
C19_TokensDenoteTheirValues ==
    (args.fn = "parse" /\ result.pc = "returned") =>
        /\ \A g \in VulgarFractions :
              /\ args.source = <<g[1]>> => Is(result.value, g[2], g[3], 0)
              /\ args.source = <<"-", g[1]>> => Is(result.value, 0 - g[2], g[3], 0)
        /\ \A g \in QuartersOfPi, name \in {<<"p", "i">>, <<"<pi>">>} :
              /\ args.source \in {<<g[1]>> \o name, <<"+", g[1]>> \o name}
                    => Is(result.value, g[2], g[3], 1)
              /\ args.source = <<"-", g[1]>> \o name => Is(result.value, 0 - g[2], g[3], 1)
        /\ \A num \in Numerals :
              /\ args.source \in {num.text \o <<"d", "e", "g">>, num.text \o <<"<deg>">>}
                    => Is(result.value, num.n, num.d * 180, 1)
              /\ args.source = num.text \o <<"%">> => Is(result.value, num.n, num.d * 100, 0)


\* C20: parseCSV turns a cell that is a number after a currency sign into
\* that number ($12.50 into 12.5), a number followed by % into a hundredth
\* of it (75% into 0.75), and a number followed by deg into that many
\* degrees in radians (45deg into pi/4).
C20_CellsAreUnwrapped ==
    (args.fn = "parseCSV" /\ result.pc = "returned") =>
        /\ \A num \in Numerals :
              /\ args.strData = <<"$">> \o num.text => Is(result.data[1][1], num.n, num.d, 0)
              /\ args.strData = num.text \o <<"%">>
                    => Is(result.data[1][1], num.n, num.d * 100, 0)
              /\ args.strData = num.text \o <<"d", "e", "g">>
                    => Is(result.data[1][1], num.n, num.d * 180, 1)
        /\ args.strData = <<"$", "1", "2", ".", "5", "0">> => Is(result.data[1][1], 25, 2, 0)
        /\ args.strData = <<"7", "5", "%">> => Is(result.data[1][1], 3, 4, 0)
        /\ args.strData = <<"4", "5", "d", "e", "g">> => Is(result.data[1][1], 1, 4, 1)


\* the rows of cells the first loop of parseCSV makes of the data
Parsed == exec(args.strData, 0, <<<<>>>>)

\* C21: every row of the grid parseCSV returns has the length of the longest
\* parsed row, and starts with its own parsed cells, coerced.
C21_RowsHaveOneLength ==
    (args.fn = "parseCSV" /\ result.pc = "returned") =>
        /\ DOMAIN result.data = DOMAIN Parsed
        /\ \A r \in DOMAIN Parsed :
              /\ \A q \in DOMAIN Parsed : Len(result.data[r]) >= Len(Parsed[q])
              /\ \E q \in DOMAIN Parsed : Len(result.data[r]) = Len(Parsed[q])
              /\ \A c \in DOMAIN Parsed[r] :
                    result.data[r][c] = coerce(Parsed[r][c].text, args.trim)

C21_Witness ==
    /\ args.fn = "parseCSV"
    /\ result.pc = "returned"
    /\ Len(Parsed) = 2
    /\ Len(Parsed[1]) = 1 /\ Len(Parsed[2]) = 3
    /\ Len(result.data[1]) = 3


\* the duration of sprite i of the sampled animation, in quarters of a frame
Duration(i) == IF args.frames[i] > 1 THEN args.frames[i] ELSE 1

RECURSIVE Total(_, _)
Total(lo, hi) == IF lo > hi THEN 0 ELSE Duration(hi) + Total(lo, hi - 1)

Walk ==
    LET N == Len(args.frames)
    IN  [k \in 1..(IF N >= 2 THEN 2 * N - 2 ELSE 1) |-> IF k <= N THEN k ELSE 2 * N - k]

RECURSIVE WalkBefore(_)
WalkBefore(k) == IF k <= 1 THEN 0 ELSE WalkBefore(k - 1) + Duration(Walk[k - 1])

\* C29: an oscillate animation with whole durations, sampled at a whole
\* counter, returns the sprite the walk forward through all sprites and back
\* from the penultimate to the second stands on at that counter modulo the
\* period; the period is the length of the walk, so that in a period each
\* inner sprite is returned for twice its duration and the first and last for
\* their duration.
C29_OscillateWalksBackAndForth ==
    (args.fn = "frame" /\ result.pc = "returned" /\ args.extrapolate = "oscillate"
        /\ WholeDurations /\ args.f % Unit = 0) =>
        /\ Sampled.period = WalkBefore(Len(Walk) + 1)
        /\ \E i \in 1..Len(Sampled.sprites) : result.sprite = Sampled.sprites[i]
        /\ \E k \in DOMAIN Walk :
              /\ WalkBefore(k) <= args.f % Sampled.period
              /\ args.f % Sampled.period < WalkBefore(k + 1)
              /\ result.sprite = Sampled.sprites[Walk[k]]

\* the counter stands on the second sprite of four on the way back
C29_Witness ==
    /\ args.fn = "frame" /\ args.extrapolate = "oscillate"
    /\ args.frames = <<Unit, Unit, Unit, Unit>>
    /\ args.f = 5 * Unit
    /\ result.pc = "returned"
    /\ result.sprite.index = 1


\* the cells of the compiled sheet, and the four versions of a sprite
Cells == {<<x, y>> : x \in DOMAIN result.spritesheet, y \in DOMAIN result.spritesheet[0]}

Versions == {"sprite", "x_flipped", "y_flipped", "xy_flipped"}

VersionOf(p, v) == result.spritesheet[p[1]][p[2]].versions[v]

\* C25: the orientation ids of all sprites of the compiled sheets and of
\* their flipped versions are pairwise distinct, and the four versions of a
\* sprite have the ids base, base + 1, base + 2 and base + 3.
C25_OrientationIdsAreDistinct ==
    (args.fn = "compile" /\ result.pc = "returned") =>
        /\ \A p \in Cells, q \in Cells, v \in Versions, w \in Versions :
              VersionOf(p, v).orientation_id = VersionOf(q, w).orientation_id
                 => (p = q /\ v = w)
        /\ \A p \in Cells :
              LET base == result.spritesheet[p[1]][p[2]].orientation_id
              IN  {VersionOf(p, v).orientation_id : v \in Versions} = base..(base + 3)

\* C27: the four versions of a sprite are closed under flipping: for every
\* version v, v.x_flipped.x_flipped and v.y_flipped.y_flipped are v,
\* v.x_flipped.y_flipped and v.y_flipped.x_flipped are the same version, and
\* x_flipped negates the x component of scale only, y_flipped the y
\* component only.
C27_FlipsAreInvolutions ==
    (args.fn = "compile" /\ result.pc = "returned") =>
        \A p \in Cells, v \in Versions :
            LET versions == result.spritesheet[p[1]][p[2]].versions
                fx == versions[v].x_flipped
                fy == versions[v].y_flipped
            IN  /\ fx \in Versions /\ fy \in Versions
                /\ versions[fx].x_flipped = v
                /\ versions[fy].y_flipped = v
                /\ versions[fx].y_flipped = versions[fy].x_flipped
                /\ scales[versions[fx].scale]
                      = [x |-> 0 - scales[versions[v].scale].x, y |-> scales[versions[v].scale].y]
                /\ scales[versions[fy].scale]
                      = [x |-> scales[versions[v].scale].x, y |-> 0 - scales[versions[v].scale].y]


\* the objects of the compiled sheet other than the sheet itself
SheetObjects ==
    {Column(x) : x \in DOMAIN result.spritesheet}
    \cup {Version(p, v) : p \in Cells, v \in Versions}
    \cup {Animation(result.names[n].name) :
             n \in {m \in DOMAIN result.names : ~result.names[m].single}}

\* C26: when the spritesheet is frozen every sprite, every flipped version,
\* every column and every animation of it has been frozen before, nothing
\* was written to any of them after its own freeze, and the freeze of the
\* sheet is the last thing the compilation does to any of them.
C26_SheetIsFrozenLast ==
    (args.fn = "compile" /\ result.pc = "returned") =>
        LET log == result.log
        IN  /\ log[Len(log)] = Freeze(TheSheet)
            /\ \A i \in 1..(Len(log) - 1) : log[i] # Freeze(TheSheet)
            /\ \A o \in SheetObjects : \E i \in 1..(Len(log) - 1) : log[i] = Freeze(o)
            /\ \A i \in DOMAIN log, j \in DOMAIN log :
                  (i < j /\ log[i].op = "freeze") => log[j].obj # log[i].obj

\* a sheet with an animation and a named sprite has been compiled
C26_Witness ==
    /\ args.fn = "compile"
    /\ Len(args.names) = 2
    /\ result.pc = "returned"
    /\ Animation("climb") \in SheetObjects


\* the version the two flip flags select
Flipped(flipX, flipY) ==
    CASE flipX /\ flipY -> "xy_flipped"
      [] flipX /\ ~flipY -> "x_flipped"
      [] ~flipX /\ flipY -> "y_flipped"
      [] OTHER -> "sprite"

\* C30: of a cell value, bit 31 is the horizontal and bit 30 the vertical
\* flip flag and the 28 low bits a tile index from 1: index 0 gives an empty
\* cell, and an index k other than 0 gives the sprite of the map's sheet at
\* column (k - 1) mod columns and row floor((k - 1) / columns), in the version
\* the flags select, never an empty cell.
C30_CellValueSelectsSprite ==
    (args.fn = "tile" /\ result.pc # "idle") =>
        LET k == args.gid.low
            sheet == TileSheet(args.cols, args.rows)
        IN  /\ k = 0 => (result.pc = "returned" /\ result.cell.empty)
            /\ k # 0 =>
                  /\ result.pc = "returned"
                  /\ ~result.cell.empty
                  /\ result.cell.x = (k - 1) % args.columns
                  /\ result.cell.y = (k - 1) \div args.columns
                  /\ result.cell.x \in DOMAIN sheet
                  /\ result.cell.y \in DOMAIN sheet[result.cell.x]
                  /\ result.cell.version = Flipped(args.gid.high \in 8..15,
                                                   args.gid.high \in (4..7) \cup (12..15))

\* ---------------------------------------------------------------- C22
\* the continuations a step registers, and those it runs
Registered == inflight' \ inflight

Ran == inflight \ inflight'

\* C22: the three stages of loadMap are ordered in every interleaving.  A
\* tile-document fetch is outstanding only for a map whose spritesheet is
\* set and frozen; the image fetch that compiles a map's spritesheet, or the
\* cache-hit wait for it, is registered only by the step in which the
\* spritesheet's metadata document arrives; and the step that registers the
\* tile-document fetch from the cache-hit path leaves the request counted
\* and does not fire the completion callback.
C22_StagesInOrder ==
    /\ [](\A t \in inflight :
             t.kind = "tmx" =>
                 /\ heap[t.obj].spritesheet # NoObj
                 /\ heap[heap[t.obj].spritesheet].frozen)
    /\ [][\A t \in Registered :
             (t.kind \in {"sheetpng", "poll"} /\ t.cb # NoObj) =>
                 /\ \E j \in Ran : j.kind = "sheetjson" /\ j.obj = t.cb
                 /\ heap[t.cb].spritesheet = NoObj]_vars
    /\ [][\A t \in Registered :
             (t.kind = "tmx" /\ \E j \in Ran : j.kind \in {"sheetjson", "poll"}) =>
                 /\ obs'[t.sess].log = obs[t.sess].log
                 /\ lm'[t.sess].pendingRequests >= 1
                 /\ lm'[t.sess].status = lm[t.sess].status]_vars

\* the tile document of a map is being fetched after the map waited for a
\* spritesheet that another asset was still compiling
C22_Witness ==
    \E t \in inflight :
        /\ t.kind = "tmx"
        /\ FromCache(t.obj)
        /\ heap[heap[t.obj].spritesheet].by = t.sess
        /\ lm[t.sess].status = "loading"
        /\ lm[t.sess].pendingRequests = 1

\* ---------------------------------------------------------------- C23
FetchFailure == \E s \in Sessions : obs[s].fetchFailed

\* C23: when every issued fetch completes, every cache-hit wait started by
\* loadSpritesheet ends: its callback runs and the wait is no longer
\* scheduled, also when the awaited spritesheet's compilation raised.
C23_WaitsEnd == (Polls # {}) ~> (Polls = {} \/ FetchFailure)

\* a wait for a spritesheet that is frozen ends
C23_WaitsForFrozenEnd ==
    (\E t \in Polls : heap[t.obj].frozen) ~> (Polls = {})

\* every fetch has completed and a wait is still scheduled for a sheet whose
\* compilation raised
C23_Stuck ==
    /\ ~FetchFailure
    /\ \A t \in inflight : t.kind = "poll"
    /\ \E t \in Polls : heap[t.obj].loaded /\ ~heap[t.obj].frozen

\* ---------------------------------------------------------------- C24
\* the sessions whose completion callback is fired by the step
Completing == {s \in Sessions : obs[s].log = <<>> /\ obs'[s].log # <<>>}

\* the assets of gameSource that the completion callback must find compiled
\* and are not: spritesheets and fonts that are not frozen, maps whose
\* spritesheet is not frozen
Uncompiled ==
    {n \in DOMAIN gameSource.assets :
        LET o == gameSource.assets[n] IN
        /\ o # NoObj
        /\ \/ heap[o].type \in {"spritesheet", "font"} /\ ~heap[o].frozen
           \/ /\ heap[o].type = "map"
              /\ heap[o].spritesheet # NoObj
              /\ ~heap[heap[o].spritesheet].frozen}

\* C24: when the completion callback of the session that owns the globals
\* fires, every spritesheet and font in gameSource.assets and every map's
\* spritesheet is frozen, whatever sessions came before.
C24_AssetsFrozenAtCompletion ==
    [][\A s \in Completing : s = loadManager' => Uncompiled' = {}]_vars

\* a session completed while an asset it took from the cache was still being
\* compiled for the session before it
C24_UnfrozenAtCompletion ==
    /\ loadManager = 2
    /\ lm[2].status = "complete"
    /\ \E n \in Uncompiled :
           /\ heap[gameSource.assets[n]].by = 1
           /\ isBuiltIn(heap[gameSource.assets[n]].jsonURL)
           /\ \E t \in inflight : t.sess = 1 /\ t.obj = gameSource.assets[n]

\* ---------------------------------------------------------------- C31
\* the constants that gameJSON declares with type reference
References == {c \in DOMAIN gameJSON.constants : gameJSON.constants[c].type = "reference"}

\* C31: once the loop over the constants has ended without an error, every
\* constant declared with type reference is stored as a GlobalReference
\* whose identifier is the value of its own declaration, and a reference
\* that the loop has not reached yet has nothing stored while the loop runs.
C31_ReferenceNamesItsTarget ==
    /\ resolving.pc = "done" =>
           \A c \in References :
               /\ c \in DOMAIN resolving.constants
               /\ resolving.constants[c] = <<"GlobalReference", gameJSON.constants[c].value>>
    /\ resolving.pc # "idle" =>
           \A c \in References \cap DOMAIN resolving.constants :
               resolving.constants[c] = <<"GlobalReference", gameJSON.constants[c].value>>

\* A aliases B, B aliases C, C is a number: A is stored as a reference to B
C31_Witness ==
    /\ resolving.pc = "done"
    /\ gameJSON.constants["A"] = [type |-> "reference", value |-> "B"]
    /\ gameJSON.constants["B"] = [type |-> "reference", value |-> "C"]
    /\ gameJSON.constants["C"].type = "number"
    /\ resolving.constants["A"] = <<"GlobalReference", "B">>

\* ---------------------------------------------------------------- C32
\* C32: a reference whose chain ends at a declared constant that is loaded
\* from a url is not refused as unresolved.
C32_ExternalTargetResolves ==
    (/\ resolving.pc = "thrown"
     /\ resolving.error[1] = "Unresolved reference: ") =>
        DefinitionOf(gameJSON.constants, resolving.id).type # "url"

\* ---------------------------------------------------------------- C33
\* the grid that the sizes of a call of the compiler give, before the swap
GridAcross == (args.width + args.gutter) \div (args.sprite_size.x + args.gutter)

GridDown == (args.height + args.gutter) \div (args.sprite_size.y + args.gutter)

Compiled == args.fn = "compile" /\ result.pc # "idle"

\* the sprites the compilation created or touched, and whether it froze the sheet
Touched(log) == {log[i].obj : i \in {j \in DOMAIN log : log[j].obj.kind = "sprite"}}

SheetFrozen(log) == \E i \in DOMAIN log : log[i] = Freeze(TheSheet)

\* C33: when the grid has no row or no column the compilation raises the
\* error about sprite_size, has created no column and no sprite and has not
\* frozen the sheet; that error is raised for no other sheet.
C33_EmptyGridIsAnError ==
    Compiled =>
        /\ (GridAcross = 0 \/ GridDown = 0) =>
               /\ result.pc = "thrown"
               /\ result.error = "sprite_size is larger than the entire spritesheet"
               /\ result.log = <<>>
        /\ (result.pc = "thrown" /\ GridAcross > 0 /\ GridDown > 0) =>
               result.error # "sprite_size is larger than the entire spritesheet"

\* a 1 x 2 image of 2 x 2 sprites has been refused
C33_Witness ==
    /\ Compiled
    /\ args.width = 1 /\ args.sprite_size.x = 2 /\ args.gutter = 0
    /\ GridDown > 0
    /\ result.pc = "thrown"

\* ---------------------------------------------------------------- C34
\* the runs of json.names that change both x and y
MixedRuns ==
    {n \in DOMAIN args.names :
        /\ ~args.names[n].single
        /\ args.names[n].start.x # args.names[n].end.x
        /\ args.names[n].start.y # args.names[n].end.y}

\* C34: a sheet with a grid whose names hold a run that differs on both axes
\* is refused and never frozen; when that run is the first entry in error
\* the error is the one about the line, raised before any of its cells is
\* visited.
C34_MixedAxisRunIsAnError ==
    (Compiled /\ GridAcross > 0 /\ GridDown > 0) =>
        /\ MixedRuns # {} =>
               /\ result.pc = "thrown"
               /\ ~SheetFrozen(result.log)
        /\ 1 \in MixedRuns =>
               /\ result.error = "Animation frames must be in a horizontal or vertical line"
               /\ Touched(result.log) = {}
        /\ (result.pc = "thrown" /\ MixedRuns = {}) =>
               result.error # "Animation frames must be in a horizontal or vertical line"

\* a run from (0, 0) to (1, 1) on a sheet that has those four cells
C34_Witness ==
    /\ Compiled
    /\ GridAcross >= 2 /\ GridDown >= 2
    /\ MixedRuns # {}
    /\ result.pc = "thrown"

\* ---------------------------------------------------------------- C35
\* the cells (x, y) of the image grid that entry n of json.names names
NamedCells(n) ==
    LET e == args.names[n] IN
    IF e.single THEN {<<e.start.x, e.start.y>>}
    ELSE {<<x, y>> : x \in e.start.x..e.end.x, y \in e.start.y..e.end.y}

\* the entries with a cell outside the image grid
OutsideEntries ==
    {n \in DOMAIN args.names :
        \E p \in NamedCells(n) :
            p[1] < 0 \/ p[1] >= GridAcross \/ p[2] < 0 \/ p[2] >= GridDown}

Packed(pixel) ==
    LET A == pixel.hi \div 256
        B == pixel.hi % 256
        G == pixel.lo \div 256
        R == pixel.lo % 256
    IN  (A \div 16) * 4096 + (B \div 16) * 256 + (G \div 16) * 16 + (R \div 16)

\* the pixel of the image that is pixel (x, y) of the region
Source(x, y) ==
    IF args.region.defined
    THEN args.image.data[(y + args.region.corner.y) * args.image.width
                            + args.region.corner.x + x + 1]
    ELSE args.image.data[y * args.image.width + x + 1]

\* C36: the result of getImageData4Bit has the width and the height of the
\* region (of the image when there is none) and holds, for each of its
\* pixels, the high nibbles of the pixel's four channels packed A, B, G, R
\* from bit 15 down, also for pixels whose highest bit is set.
C36_PixelsKeepTheirHighNibbles ==
    (args.fn = "quantize" /\ result.pc = "returned" /\ ~args.full32bitoutput) =>
        LET width == IF args.region.defined THEN args.region.size.x ELSE args.image.width
            height == IF args.region.defined THEN args.region.size.y ELSE args.image.height
        IN  /\ result.width = width
            /\ result.height = height
            /\ Len(result.data) = width * height
            /\ \A x \in 0..(width - 1), y \in 0..(height - 1) :
                  result.data[y * width + x + 1] = Pixel(0, Packed(Source(x, y)))

\* a pixel whose alpha is 0xF0 or more and whose other channels differ
C36_Witness ==
    /\ args.fn = "quantize"
    /\ result.pc = "returned"
    /\ args.image.data[1] = Pixel(240 * 256 + 165, 127 * 256 + 16)
    /\ result.data[1] = Pixel(0, 15 * 4096 + 10 * 256 + 7 * 16 + 1)

\* ---------------------------------------------------------------- C38
\* C38: compiling a spritesheet leaves json.region as the document gave it:
\* its corner (or pos) and its size are what they were, for every region
\* and every image size.
C38_RegionOfDocumentUnchanged ==
    (args.fn = "region" /\ result.pc = "returned") => result.json = args.json

\* the corner and the size of the document's region were clamped in place
C38_RegionOfDocumentClamped ==
    /\ args.fn = "region"
    /\ result.pc = "returned"
    /\ args.json.corner = Vec(0 - 1, 0)
    /\ result.json.corner = Vec(0, 0)
    /\ args.json.size.defined
    /\ result.json.size # args.json.size

\* ---------------------------------------------------------------- C37
\* every asset of the array is of the type, is where its index says and is
\* there once
Indexed(array, type) ==
    \A i \in 1..Len(array) :
        /\ array[i] \in Objects
        /\ heap[array[i]].type = type
        /\ heap[array[i]].index = i - 1
        /\ \A j \in 1..Len(array) : array[j] = array[i] => j = i

C39_ParseTerminates ==
    args.fn = "parseFrom" => result.pc \in {"idle", "returned", "thrown"}

\* the same for the loop of the object literal alone
C39_ObjectLoopAdvances ==
    (args.fn = "parseFrom" /\ result.pc = "looping") => result.loop = "array"


\* ---------------------------------------------------------------- C40
\* the names gameJSON.assets declares that gameSource.assets does not hold
Absent == {n \in DOMAIN manifest : gameSource.assets[n] = NoObj}

\* C40: when the completion callback of the session that owns the globals
\* fires, every asset name the manifest declares has an entry in
\* gameSource.assets, whatever the suffix of its URL.
C40_DeclaredAssetsPresent ==
    [][\A s \in Completing : s = loadManager' => Absent' = {}]_vars

\* the same for the declarations whose URL names a font, a spritesheet, a
\* sound or a map
C40_KnownTypesPresent ==
    [][\A s \in Completing : s = loadManager' =>
          \A n \in Absent' : AssetType(manifest[n]) \notin {"font", "sprite", "sound", "map"}]_vars

====
